---- MODULE Spec2Model ----
(***************************************************************************)
(* Model of the legal-contract analyser: the response parser              *)
(* (core/response_parser.py), the text filter (core/text_filter.py), the   *)
(* document extractors (core/document_processor.py, core/pdf_processor.py) *)
(* and the run over the companies (main.py, core/file_manager.py).         *)
(*                                                                         *)
(* Texts are sequences of lexemes.  A lexeme is a chunk of characters that *)
(* the parser's string tests, the JSON grammar and the fallback regexes    *)
(* never split: the strip/startswith/endswith/find tests, json.loads and   *)
(* re.search are modelled on lexeme sequences, and the value of a text is  *)
(* the concatenation of its lexemes.                                       *)
(***************************************************************************)
EXTENDS Integers, Sequences, FiniteSets, TLC

(***************************************************************************)
(* Lexemes                                                                 *)
(***************************************************************************)
QUOTE == "\""
LBRACE == "{"
RBRACE == "}"
COLON == ":"
COMMA == ","
\* the markdown fence: three backtick characters, written as a name here
\* because a TLA+ string cannot hold a backtick
FENCE == "<fence>"
JSONTAG == "json"
NL == "\n"
SP == " "
\* the two characters backslash, n: the JSON escape of a newline
ESCNL == "\\n"

\* str.strip() removes these from both ends
Whitespace == {NL, SP}

\* Python values: the model keeps the type next to the characters
Str(s) == [t |-> "str", v |-> s]
PyNone == [t |-> "none", v |-> <<>>]
PyBytes(s) == [t |-> "bytes", v |-> s]

(***************************************************************************)
(* String primitives                                                       *)
(***************************************************************************)
RECURSIVE LStrip(_)
LStrip(s) ==
    IF s # <<>> /\ Head(s) \in Whitespace THEN LStrip(Tail(s)) ELSE s

RECURSIVE RStrip(_)
RStrip(s) ==
    IF s # <<>> /\ s[Len(s)] \in Whitespace
    THEN RStrip(SubSeq(s, 1, Len(s) - 1))
    ELSE s

\* str.strip()
Strip(s) == RStrip(LStrip(s))

\* text.startswith(p), text.endswith(p)
StartsWith(s, p) == Len(s) >= Len(p) /\ SubSeq(s, 1, Len(p)) = p
EndsWith(s, p) == Len(s) >= Len(p) /\ SubSeq(s, Len(s) - Len(p) + 1, Len(s)) = p

\* text[n:] and text[:-n], counted in lexemes
DropFirst(s, n) == SubSeq(s, n + 1, Len(s))
DropLast(s, n) == SubSeq(s, 1, Len(s) - n)

\* text.find(c): index of the first occurrence of lexeme c, 0 when absent
\* (Python indexes from 0 and answers -1; the model indexes from 1)
Find(s, c) ==
    IF \E i \in 1..Len(s) : s[i] = c
    THEN CHOOSE i \in 1..Len(s) : s[i] = c /\ \A j \in 1..(i - 1) : s[j] # c
    ELSE 0

\* text.rfind(c): index of the last occurrence, 0 when absent
RFind(s, c) ==
    IF \E i \in 1..Len(s) : s[i] = c
    THEN CHOOSE i \in 1..Len(s) : s[i] = c /\ \A j \in (i + 1)..Len(s) : s[j] # c
    ELSE 0

(***************************************************************************)
(* Stage 1: markdown unwrap (parse_detailed_response, lines 12-22)         *)
(***************************************************************************)
StripOpenerJson(s) == IF StartsWith(s, <<FENCE, JSONTAG>>) THEN DropFirst(s, 2) ELSE s
StripOpener(s) == IF StartsWith(s, <<FENCE>>) THEN DropFirst(s, 1) ELSE s
\* mutant: the closing slice takes one character too many
StripCloserOneMore(s) == IF EndsWith(s, <<FENCE>>) THEN DropLast(s, 2) ELSE s
StripCloser(s) == IF EndsWith(s, <<FENCE>>) THEN DropLast(s, 1) ELSE s

Unwrap(s) == Strip(StripCloser(StripOpener(StripOpenerJson(Strip(s)))))

(***************************************************************************)
(* Stage 2: JSON extraction.  json.loads on a lexeme sequence.             *)
(*                                                                         *)
(* Decoded values are Python values: str, int, bool, None and dict; a dict *)
(* is the sequence of its <<key, value>> items in insertion order.         *)
(***************************************************************************)
ZERO == "0"
SEVEN == "7"
Digits == {ZERO, SEVEN}
TRUE_LIT == "true"
FALSE_LIT == "false"
NULL_LIT == "null"

PyInt(s) == [t |-> "int", v |-> s]
PyBool(s) == [t |-> "bool", v |-> s]
PyDict(items) == [t |-> "dict", v |-> items]

\* the result of a scanning step: whether it succeeded, the index after the
\* scanned value, and the value; a failure is json.JSONDecodeError
ParseFail == [ok |-> FALSE, pos |-> 0, val |-> PyNone]
ParseOk(p, x) == [ok |-> TRUE, pos |-> p, val |-> x]

\* index of the first lexeme at or after i that is not JSON whitespace
RECURSIVE SkipWs(_, _)
SkipWs(t, i) ==
    IF i <= Len(t) /\ t[i] = NL THEN SkipWs(t, i + 1) ELSE i

\* index of the first QUOTE at or after i, 0 when there is none
RECURSIVE NextQuote(_, _)
NextQuote(t, i) ==
    IF i > Len(t) THEN 0
    ELSE IF t[i] = QUOTE THEN i
    ELSE NextQuote(t, i + 1)

\* the characters of a string literal after decoding its escapes
Unescape(s) == [k \in 1..Len(s) |-> IF s[k] = ESCNL THEN NL ELSE s[k]]

\* a string literal opening at t[i]: strict mode rejects a raw control
\* character (a newline) inside it
ScanString(t, i) ==
    LET j == NextQuote(t, i + 1)
    IN  IF j = 0 THEN ParseFail
        ELSE IF \E k \in (i + 1)..(j - 1) : t[k] = NL THEN ParseFail
        ELSE ParseOk(j + 1, Str(Unescape(SubSeq(t, i + 1, j - 1))))

\* index after the run of digits that starts at i
RECURSIVE DigitsEnd(_, _)
DigitsEnd(t, i) ==
    IF i <= Len(t) /\ t[i] \in Digits THEN DigitsEnd(t, i + 1) ELSE i

\* a number: 0, or a non-zero digit followed by digits
ScanNumber(t, i) ==
    IF t[i] = ZERO THEN ParseOk(i + 1, PyInt(<<ZERO>>))
    ELSE LET j == DigitsEnd(t, i) IN ParseOk(j, PyInt(SubSeq(t, i, j - 1)))

\* dict[key] = value: a repeated key keeps its place and takes the new value
RECURSIVE DictPut(_, _, _)
DictPut(items, k, x) ==
    IF items = <<>> THEN << <<k, x>> >>
    ELSE IF Head(items)[1] = k THEN << <<k, x>> >> \o Tail(items)
    ELSE <<Head(items)>> \o DictPut(Tail(items), k, x)

RECURSIVE ScanValue(_, _)
RECURSIVE ScanMembers(_, _, _)

\* the members of an object, the first key's opening quote at t[i]
ScanMembers(t, i, items) ==
    LET key == ScanString(t, i)
        c == SkipWs(t, key.pos)
    IN  IF ~key.ok THEN ParseFail
        ELSE IF c > Len(t) \/ t[c] # COLON THEN ParseFail
        ELSE LET val == ScanValue(t, SkipWs(t, c + 1))
                 e == SkipWs(t, val.pos)
                 put == DictPut(items, key.val.v, val.val)
                 n == SkipWs(t, e + 1)
             IN  IF ~val.ok THEN ParseFail
                 ELSE IF e > Len(t) THEN ParseFail
                 ELSE IF t[e] = RBRACE THEN ParseOk(e + 1, PyDict(put))
                 ELSE IF t[e] # COMMA THEN ParseFail
                 ELSE IF n > Len(t) \/ t[n] # QUOTE THEN ParseFail
                 ELSE ScanMembers(t, n, put)

\* an object opening at t[i]
ScanObject(t, i) ==
    LET j == SkipWs(t, i + 1)
    IN  IF j > Len(t) THEN ParseFail
        ELSE IF t[j] = RBRACE THEN ParseOk(j + 1, PyDict(<<>>))
        ELSE IF t[j] = QUOTE THEN ScanMembers(t, j, <<>>)
        ELSE ParseFail

ScanValue(t, i) ==
    IF i > Len(t) THEN ParseFail
    ELSE IF t[i] = QUOTE THEN ScanString(t, i)
    ELSE IF t[i] = LBRACE THEN ScanObject(t, i)
    ELSE IF t[i] \in Digits THEN ScanNumber(t, i)
    ELSE IF t[i] = TRUE_LIT THEN ParseOk(i + 1, PyBool(<<TRUE_LIT>>))
    ELSE IF t[i] = FALSE_LIT THEN ParseOk(i + 1, PyBool(<<FALSE_LIT>>))
    ELSE IF t[i] = NULL_LIT THEN ParseOk(i + 1, PyNone)
    ELSE ParseFail

\* json.loads(s): one value, whitespace around it, and nothing else
JsonLoads(t) ==
    LET r == ScanValue(t, SkipWs(t, 1))
    IN  IF r.ok /\ SkipWs(t, r.pos) = Len(t) + 1 THEN r ELSE ParseFail

\* dict.get(key): the value of the key, None when the key is absent
RECURSIVE DictGet(_, _)
DictGet(items, k) ==
    IF items = <<>> THEN PyNone
    ELSE IF Head(items)[1] = k THEN Head(items)[2]
    ELSE DictGet(Tail(items), k)

(***************************************************************************)
(* Python's truth value and str() of a decoded value                       *)
(***************************************************************************)
Truthy(x) ==
    CASE x.t = "str" -> x.v # <<>>
      [] x.t = "int" -> x.v # <<ZERO>>
      [] x.t = "bool" -> x.v = <<TRUE_LIT>>
      [] x.t = "dict" -> x.v # <<>>
      [] OTHER -> FALSE

\* repr() shows a newline inside a string as its escape
Escape(s) == [k \in 1..Len(s) |-> IF s[k] = NL THEN ESCNL ELSE s[k]]

RECURSIVE PyRepr(_)
RECURSIVE ReprItems(_)
ReprItems(items) ==
    IF items = <<>> THEN <<>>
    ELSE <<"'">> \o Escape(Head(items)[1]) \o <<"'", ": ">>
         \o PyRepr(Head(items)[2])
         \o (IF Tail(items) = <<>> THEN <<>> ELSE <<", ">> \o ReprItems(Tail(items)))

PyRepr(x) ==
    CASE x.t = "str" -> <<"'">> \o Escape(x.v) \o <<"'">>
      [] x.t = "int" -> x.v
      [] x.t = "bool" -> IF x.v = <<TRUE_LIT>> THEN <<"True">> ELSE <<"False">>
      [] x.t = "dict" -> <<LBRACE>> \o ReprItems(x.v) \o <<RBRACE>>
      [] OTHER -> <<"None">>

\* str(value)
PyStr(x) == IF x.t = "str" THEN x.v ELSE PyRepr(x)

(***************************************************************************)
(* The record schema (_get_default_result)                                 *)
(***************************************************************************)
Fields ==
    {"company", "contract_name", "contract_counterparty", "effective_date",
     "renewal_termination_date", "name_change_requires_notification",
     "clause_reference", "is_assignment", "assignment_clause_reference",
     "material_corporate_structure_clauses", "notices_clause_present",
     "action_required", "recommended_action"}

NotSpecified == Str(<<"Not Specified">>)
NotApplicable == Str(<<"N/A">>)

ClauseReferenceFields == {"clause_reference", "assignment_clause_reference"}

\* the declared default of a field other than company
DefaultOf(f) == IF f \in ClauseReferenceFields THEN NotApplicable ELSE NotSpecified

_get_default_result(company_name) ==
    [f \in Fields |-> IF f = "company" THEN company_name ELSE DefaultOf(f)]

(***************************************************************************)
(* Record from the decoded object (_build_result_from_json)                *)
(***************************************************************************)
\* mutant: the value is returned without str()
clean_value_unconverted(value) ==
    IF ~Truthy(value) \/ (value.t = "str" /\ value.v = <<>>)
    THEN Str(<<"Not Specified">>)
    ELSE value

\* mutant: only None counts as absent
clean_value_none_only(value) ==
    IF value.t = "none" THEN Str(<<"Not Specified">>) ELSE Str(Strip(PyStr(value)))

clean_value(value) ==
    IF ~Truthy(value) \/ (value.t = "str" /\ value.v = <<>>)
    THEN Str(<<"Not Specified">>)
    ELSE Str(Strip(PyStr(value)))

\* mutant: a company key of the decoded object overrides the identifier
_build_result_from_json_company_key(data, company_name) ==
    [f \in Fields |->
        IF f = "company" /\ Truthy(DictGet(data.v, <<f>>))
        THEN Str(Strip(PyStr(DictGet(data.v, <<f>>))))
        ELSE IF f = "company" THEN company_name
        ELSE clean_value(DictGet(data.v, <<f>>))]

_build_result_from_json(data, company_name) ==
    [f \in Fields |->
        IF f = "company" THEN company_name
        ELSE clean_value(DictGet(data.v, <<f>>))]

(***************************************************************************)
(* Stage 3: heuristic extraction (_extract_from_text_fallback)             *)
(*                                                                         *)
(* re.search(pattern, text, re.IGNORECASE) on a lexeme sequence.  Only the *)
(* quoted-substring pattern matches across lexemes; every other pattern    *)
(* matches inside one lexeme, and the tables below give, for each lexeme,  *)
(* group(1) of the leftmost match inside it ("" when it has none).         *)
(***************************************************************************)
PROSE == "prose"
WORD_NO == "no"
NAME == "Service Agreement"
DATE == "2024-01-01"
NOTIFY == "Notification Required"
NOACTION == "No Action Required"
\* the same phrase as a sentence would write it
NOACTION_LOWER == "no action required"

\* (Yes|No|Not Specified) and (Yes|No|Unclear)
YesNoGroup(lex) ==
    CASE lex \in {WORD_NO, NOACTION_LOWER} -> "no"
      [] lex \in {NOTIFY, NOACTION} -> "No"
      [] OTHER -> ""

\* (\d{4}-\d{2}-\d{2}|\d{1,2}/\d{1,2}/\d{4}|\w+ \d{1,2},? \d{4})
DateGroup(lex) == IF lex = DATE THEN DATE ELSE ""

\* (Notification Required|Consent Required|No Action Required|Further Legal Review Recommended)
ActionRequiredGroup(lex) == IF lex \in {NOTIFY, NOACTION, NOACTION_LOWER} THEN lex ELSE ""

\* (Send Notification|Request Consent|No Action|Escalate for Legal Review)
RecommendedActionGroup(lex) ==
    CASE lex = NOACTION -> "No Action"
      [] lex = NOACTION_LOWER -> "no action"
      [] OTHER -> ""

QuotedFields == {"contract_name", "contract_counterparty"}

\* the fields of the patterns dict
PatternFields ==
    QuotedFields \cup {"effective_date", "name_change_requires_notification",
                       "is_assignment", "action_required", "recommended_action"}

LexemeGroup(f, lex) ==
    CASE f = "effective_date" -> DateGroup(lex)
      [] f \in {"name_change_requires_notification", "is_assignment"} -> YesNoGroup(lex)
      [] f = "action_required" -> ActionRequiredGroup(lex)
      [] f = "recommended_action" -> RecommendedActionGroup(lex)
      [] OTHER -> ""

NoMatch == [found |-> FALSE, group |-> <<>>]

\* "([^"]+)" searched from index i: the leftmost quote that is followed by
\* at least one non-quote and then a quote
\* mutant: the greedy pattern "(.+)", which runs to the last quote
SearchQuotedGreedy(t, i) ==
    IF \E a \in 1..Len(t) : \E b \in (a + 2)..Len(t) : t[a] = QUOTE /\ t[b] = QUOTE
    THEN [found |-> TRUE, group |-> SubSeq(t, Find(t, QUOTE) + 1, RFind(t, QUOTE) - 1)]
    ELSE NoMatch

RECURSIVE SearchQuoted(_, _)
SearchQuoted(t, i) ==
    IF i + 2 > Len(t) THEN NoMatch
    ELSE IF t[i] = QUOTE /\ t[i + 1] # QUOTE /\ NextQuote(t, i + 2) # 0
         THEN [found |-> TRUE, group |-> SubSeq(t, i + 1, NextQuote(t, i + 2) - 1)]
         ELSE SearchQuoted(t, i + 1)

\* a one-lexeme pattern searched from index i
RECURSIVE SearchLexeme(_, _, _)
SearchLexeme(f, t, i) ==
    IF i > Len(t) THEN NoMatch
    ELSE IF LexemeGroup(f, t[i]) # ""
         THEN [found |-> TRUE, group |-> <<LexemeGroup(f, t[i])>>]
         ELSE SearchLexeme(f, t, i + 1)

\* re.search(patterns[f], text, re.IGNORECASE)
ReSearch(f, t) ==
    IF f \in QuotedFields THEN SearchQuoted(t, 1) ELSE SearchLexeme(f, t, 1)

\* mutant: the date pattern is also applied to the renewal date
_extract_from_text_fallback_second_date(text, company_name) ==
    [f \in Fields |->
        IF f = "renewal_termination_date" /\ ReSearch("effective_date", text).found
        THEN Str(ReSearch("effective_date", text).group)
        ELSE IF f \in PatternFields /\ ReSearch(f, text).found
        THEN Str(ReSearch(f, text).group)
        ELSE _get_default_result(company_name)[f]]

_extract_from_text_fallback(text, company_name) ==
    [f \in Fields |->
        IF f \in PatternFields /\ ReSearch(f, text).found
        THEN Str(ReSearch(f, text).group)
        ELSE _get_default_result(company_name)[f]]

(***************************************************************************)
(* parse_detailed_response as a function of a string input                 *)
(***************************************************************************)
\* lines 25-30: the slice from the first "{" to the last "}"
\* mutant: find() where rfind() is meant
JsonCandidateFirstClose(text) ==
    LET json_start == Find(text, LBRACE)
        json_end == Find(text, RBRACE)
    IN  IF json_start # 0 /\ json_end # 0 /\ json_end > json_start
        THEN [found |-> TRUE, json_text |-> SubSeq(text, json_start, json_end)]
        ELSE [found |-> FALSE, json_text |-> <<>>]

JsonCandidate(text) ==
    LET json_start == Find(text, LBRACE)
        json_end == RFind(text, RBRACE)
    IN  IF json_start # 0 /\ json_end # 0 /\ json_end > json_start
        THEN [found |-> TRUE, json_text |-> SubSeq(text, json_start, json_end)]
        ELSE [found |-> FALSE, json_text |-> <<>>]

parse_detailed_response(s, company_name) ==
    LET text == Unwrap(s)
        cand == JsonCandidate(text)
    IN  IF cand.found /\ JsonLoads(cand.json_text).ok
        THEN _build_result_from_json(JsonLoads(cand.json_text).val, company_name)
        ELSE _extract_from_text_fallback(text, company_name)

(***************************************************************************)
(* Inputs: the raw response texts and the company identifiers              *)
(***************************************************************************)
MaxLen == 3
MaxWs == 1
MaxAffix == 1

SeqsUpTo(S, n) == UNION {[1..k -> S] : k \in 0..n}

RECURSIVE Flatten(_)
Flatten(ss) == IF ss = <<>> THEN <<>> ELSE Head(ss) \o Flatten(Tail(ss))

Identifiers == {Str(<<"Acme">>), Str(<<"Globex">>)}

\* any short text
FreeLexemes ==
    {LBRACE, RBRACE, QUOTE, FENCE, JSONTAG, NL, PROSE, WORD_NO, NOTIFY, NOACTION,
     NOACTION_LOWER, DATE}
FreeTexts == SeqsUpTo(FreeLexemes, MaxLen)

\* JSON objects as the model writes them: a sequence of <<key, value text>>
MemberKeys == {"contract_name", "clause_reference", "action_required", "company"}
MemberValues ==
    { <<QUOTE, NAME, QUOTE>>, <<QUOTE, NOTIFY, QUOTE>>, <<QUOTE, QUOTE>>,
      <<QUOTE, ESCNL, NAME, ESCNL, QUOTE>>,
      <<NULL_LIT>>, <<ZERO>>, <<SEVEN>>, <<FALSE_LIT>>, <<TRUE_LIT>>,
      <<LBRACE, RBRACE>> }
Members == MemberKeys \X MemberValues
SmallObjects == {<<>>} \cup {<<m>> : m \in Members}
Objects == SmallObjects \cup {<<m, n>> : m \in Members, n \in Members}

RECURSIVE RenderMembers(_, _)
RenderMembers(obj, ws) ==
    IF obj = <<>> THEN <<>>
    ELSE <<QUOTE, Head(obj)[1], QUOTE, COLON>> \o ws \o Head(obj)[2]
         \o (IF Tail(obj) = <<>> THEN <<>>
             ELSE <<COMMA>> \o ws \o RenderMembers(Tail(obj), ws))

\* the text of an object, ws between its parts
Render(obj, ws) == <<LBRACE>> \o ws \o RenderMembers(obj, ws) \o ws \o <<RBRACE>>

ObjectTexts ==
    {Render(obj, <<>>) : obj \in Objects} \cup {Render(obj, <<NL>>) : obj \in SmallObjects}

\* a response cut short, and two objects side by side
TruncatedTexts ==
    UNION {{SubSeq(Render(obj, <<>>), 1, k) : k \in 1..(Len(Render(obj, <<>>)) - 1)} :
           obj \in SmallObjects}
ContextObjects ==
    { <<>>, << <<"action_required", <<QUOTE, NOTIFY, QUOTE>> >> >>,
      << <<"company", <<QUOTE, NAME, QUOTE>> >> >>,
      << <<"clause_reference", <<SEVEN>> >> >> }
DoubledTexts ==
    {Render(a, <<>>) \o Render(b, <<>>) : a \in ContextObjects, b \in ContextObjects}

\* an object inside a fenced code block
Spaces == SeqsUpTo({NL}, MaxWs)
Openers == {<<FENCE>>, <<FENCE, JSONTAG>>}
FencedTexts ==
    {a \o o \o b \o Render(obj, <<>>) \o c \o <<FENCE>> \o d :
        a \in Spaces, o \in Openers, b \in Spaces, c \in Spaces, d \in Spaces,
        obj \in SmallObjects}

\* an object with other text before and after it
ContextSegments == {<<QUOTE, NAME, QUOTE>>, <<NOTIFY>>, <<DATE>>, <<PROSE>>, <<NL>>}
Affixes == {Flatten(ss) : ss \in SeqsUpTo(ContextSegments, MaxAffix)}
ContextTexts ==
    {pre \o Render(obj, <<>>) \o post :
        pre \in Affixes, post \in Affixes, obj \in ContextObjects}

\* the examples of the tests
ExampleTexts ==
    { <<PROSE, QUOTE, NAME, QUOTE, PROSE, NOTIFY>>,
      <<PROSE, WORD_NO, PROSE, WORD_NO, PROSE>>,
      <<FENCE, JSONTAG, NL, LBRACE, QUOTE, "contract_name", QUOTE, COLON,
        QUOTE, NAME, QUOTE, RBRACE, NL, FENCE>> }

Texts ==
    FreeTexts \cup ObjectTexts \cup TruncatedTexts \cup DoubledTexts
    \cup FencedTexts \cup ContextTexts \cup ExampleTexts

RawInputs == {Str(s) : s \in Texts} \cup {PyNone, PyBytes(<<>>)}

(***************************************************************************)
(* State.  Each component is run on its own: a specification runs one      *)
(* component and leaves the variables of the others at rest.               *)
(***************************************************************************)
\* ResponseParser.parse_detailed_response
VARIABLES raw, company_name, pc, text, json_text, data, result, stages, exc
\* TextFilter.filter_text
VARIABLES f_pc, combined_text, search_terms, window_size, words, term_positions,
          windows, merged_windows, filtered_text
\* DocumentProcessor.extract_all_text_from_folder and combine_document_texts
VARIABLES s_pc, folder, document_files, doc_index, successful_texts,
          failed_documents, document_stats, calls, combined
\* DocumentProcessor.extract_text_from_document, PDFProcessor.extract_text_from_pdf
VARIABLES x_pc, document, extracted, attempts
\* LegalAnalyzer.run_analysis
VARIABLES r_pc, companies, index, total_companies, successful_companies,
          failed_companies, failed_files, text_result, analysis_result, rows, steps

parserVars == <<raw, company_name, pc, text, json_text, data, result, stages, exc>>
filterVars ==
    <<f_pc, combined_text, search_terms, window_size, words, term_positions,
      windows, merged_windows, filtered_text>>
scanVars ==
    <<s_pc, folder, document_files, doc_index, successful_texts,
      failed_documents, document_stats, calls, combined>>
extractVars == <<x_pc, document, extracted, attempts>>
runVars ==
    <<r_pc, companies, index, total_companies, successful_companies,
      failed_companies, failed_files, text_result, analysis_result, rows, steps>>

vars == <<parserVars, filterVars, scanVars, extractVars, runVars>>

ParserAtRest ==
    /\ raw = PyNone
    /\ company_name = Str(<<>>)
    /\ pc = "rest"
    /\ text = <<>>
    /\ json_text = <<>>
    /\ data = PyNone
    /\ result = <<>>
    /\ stages = <<>>
    /\ exc = "none"

FilterAtRest ==
    /\ f_pc = "rest"
    /\ combined_text = <<>>
    /\ search_terms = <<>>
    /\ window_size = 0
    /\ words = <<>>
    /\ term_positions = <<>>
    /\ windows = {}
    /\ merged_windows = <<>>
    /\ filtered_text = <<>>

ScanAtRest ==
    /\ s_pc = "rest"
    /\ folder = <<>>
    /\ document_files = <<>>
    /\ doc_index = 0
    /\ successful_texts = <<>>
    /\ failed_documents = <<>>
    /\ document_stats = <<>>
    /\ calls = <<>>
    /\ combined = <<>>

ExtractAtRest ==
    /\ x_pc = "rest"
    /\ document = <<>>
    /\ extracted = PyNone
    /\ attempts = <<>>

RunAtRest ==
    /\ r_pc = "rest"
    /\ companies = <<>>
    /\ index = 0
    /\ total_companies = 0
    /\ successful_companies = 0
    /\ failed_companies = 0
    /\ failed_files = <<>>
    /\ text_result = PyNone
    /\ analysis_result = PyNone
    /\ rows = <<>>
    /\ steps = <<>>

(***************************************************************************)
(* The call of the parser as a state machine                               *)
(***************************************************************************)

Init ==
    /\ raw \in RawInputs
    /\ company_name \in Identifiers
    /\ pc = "call"
    /\ text = <<>>
    /\ json_text = <<>>
    /\ data = PyNone
    /\ result = <<>>
    /\ stages = <<>>
    /\ exc = "none"
    /\ FilterAtRest /\ ScanAtRest /\ ExtractAtRest /\ RunAtRest

\* the exceptions the handler of line 43 catches: every Exception
Exceptions == {"AttributeError", "TypeError", "JSONDecodeError"}
\* mutant: the handler of line 43 catches json.JSONDecodeError only
OuterCatchesDecodeErrorOnly(e) == e = "JSONDecodeError"
OuterCatches(e) == e \in Exceptions

\* lines 12-22.  None has no strip(); bytes.startswith refuses a str argument
Clean ==
    /\ pc = "call"
    /\ IF raw.t = "str"
       THEN /\ text' = Unwrap(raw.v)
            /\ pc' = "find"
            /\ stages' = Append(stages, "unwrap")
            /\ exc' = exc
       ELSE /\ exc' = (IF raw.t = "none" THEN "AttributeError" ELSE "TypeError")
            /\ pc' = "except"
            /\ UNCHANGED <<text, stages>>
    /\ UNCHANGED <<raw, company_name, json_text, data, result>>
    /\ UNCHANGED <<filterVars, scanVars, extractVars, runVars>>

\* lines 25-30
FindJson ==
    /\ pc = "find"
    /\ IF JsonCandidate(text).found
       THEN /\ json_text' = JsonCandidate(text).json_text
            /\ pc' = "loads"
       ELSE /\ pc' = "fallback"
            /\ UNCHANGED json_text
    /\ UNCHANGED <<raw, company_name, text, data, result, stages, exc>>
    /\ UNCHANGED <<filterVars, scanVars, extractVars, runVars>>

\* mutant: the return of line 35 is missing
AfterJsonFallsThrough == "fallback"

\* where control goes after _build_result_from_json: line 35 returns
AfterJson == "done"

\* lines 33-35
LoadsOk ==
    /\ pc = "loads"
    /\ JsonLoads(json_text).ok
    /\ data' = JsonLoads(json_text).val
    /\ result' = _build_result_from_json(data', company_name)
    /\ stages' = Append(stages, "json")
    /\ pc' = AfterJson
    /\ UNCHANGED <<raw, company_name, text, json_text, exc>>
    /\ UNCHANGED <<filterVars, scanVars, extractVars, runVars>>

\* lines 33, 36-37: JSONDecodeError is caught and logged
LoadsFail ==
    /\ pc = "loads"
    /\ ~JsonLoads(json_text).ok
    /\ stages' = Append(stages, "json_failed")
    /\ pc' = "fallback"
    /\ UNCHANGED <<raw, company_name, text, json_text, data, result, exc>>
    /\ UNCHANGED <<filterVars, scanVars, extractVars, runVars>>

\* lines 40-41
Fallback ==
    /\ pc = "fallback"
    /\ result' = _extract_from_text_fallback(text, company_name)
    /\ stages' = Append(stages, "heuristic")
    /\ pc' = "done"
    /\ UNCHANGED <<raw, company_name, text, json_text, data, exc>>
    /\ UNCHANGED <<filterVars, scanVars, extractVars, runVars>>

\* lines 43-45
Except ==
    /\ pc = "except"
    /\ IF OuterCatches(exc)
       THEN /\ result' = _get_default_result(company_name)
            /\ stages' = Append(stages, "default")
            /\ pc' = "done"
       ELSE /\ pc' = "raised"
            /\ UNCHANGED <<result, stages>>
    /\ UNCHANGED <<raw, company_name, text, json_text, data, exc>>
    /\ UNCHANGED <<filterVars, scanVars, extractVars, runVars>>

Next == Clean \/ FindJson \/ LoadsOk \/ LoadsFail \/ Fallback \/ Except

Spec == Init /\ [][Next]_vars

(***************************************************************************)
(* Properties of the response parser                                       *)
(***************************************************************************)
Ran(stage) == \E k \in 1..Len(stages) : stages[k] = stage
Returned == pc = "done"

\* the full-default record, written out field by field
IsFullDefault(r, identifier) ==
    /\ DOMAIN r = Fields
    /\ r["company"] = identifier
    /\ r["clause_reference"] = Str(<<"N/A">>)
    /\ r["assignment_clause_reference"] = Str(<<"N/A">>)
    /\ \A f \in Fields \ {"company", "clause_reference", "assignment_clause_reference"} :
          r[f] = Str(<<"Not Specified">>)

\* the value the decoded object holds for a field, None when it has none
Given(f) == DictGet(data.v, <<f>>)
HasKey(f) == \E k \in 1..Len(data.v) : data.v[k][1] = <<f>>
\* absent, null or the empty string
Missing(f) == Given(f).t = "none" \/ (Given(f).t = "str" /\ Given(f).v = <<>>)

\* C1: parse_detailed_response never raises.  No call ends with an
\* exception leaving the function, every call that has not returned is at
\* a line of the function, a returned call holds a record, and a call in which a step
\* raised into the handler of line 43 returns exactly the full-default
\* record of the supplied identifier.  (JSONDecodeError never reaches that
\* handler: lines 36-37 catch it and the heuristic stage runs.)
C1_NeverRaises ==
    /\ pc # "raised"
    /\ ~Returned => pc \in {"call", "find", "loads", "fallback", "except"}
    /\ Returned => DOMAIN result = Fields
    /\ Returned /\ exc # "none" => IsFullDefault(result, company_name)

C1_Witness ==
    /\ Returned
    /\ raw.t = "none"
    /\ exc = "AttributeError"
    /\ Ran("default")
    /\ IsFullDefault(result, company_name)

\* C2: on every path the returned record has exactly the 13 schema keys
\* and every value is a string.
C2_SchemaStrings ==
    Returned =>
        /\ DOMAIN result = Fields
        /\ Cardinality(DOMAIN result) = 13
        /\ \A f \in Fields : result[f].t = "str"

C2_Witness ==
    /\ Returned
    /\ Ran("json")
    /\ Given("clause_reference").t = "int"
    /\ Given("clause_reference").v = <<SEVEN>>
    /\ result["clause_reference"] = Str(<<SEVEN>>)

\* C3: the company field of the returned record is the supplied
\* identifier, also when the decoded object has a company key.
C3_CompanyIsIdentifier == Returned => result["company"] = company_name

C3_Witness ==
    /\ Returned
    /\ Ran("json")
    /\ HasKey("company")
    /\ Given("company") = Str(<<NAME>>)
    /\ result["company"] = company_name

\* C4: on the JSON path a field that is absent, null or the empty string
\* and whose declared default is "Not Specified" is returned as
\* "Not Specified".
C4_MissingIsNotSpecified ==
    Returned /\ Ran("json") =>
        \A f \in Fields \ {"company", "clause_reference", "assignment_clause_reference"} :
            Missing(f) => result[f] = Str(<<"Not Specified">>)

C4_Witness ==
    /\ Returned
    /\ Ran("json")
    /\ HasKey("action_required")
    /\ Given("action_required") = Str(<<>>)
    /\ result["action_required"] = Str(<<"Not Specified">>)

\* C5: on the JSON path every absent, null or empty field takes its own
\* declared default, "N/A" for the clause-reference fields, so that the
\* empty object gives the full-default record.
C5_MissingIsOwnDefault ==
    Returned /\ Ran("json") =>
        /\ \A f \in {"clause_reference", "assignment_clause_reference"} :
              Missing(f) => result[f] = Str(<<"N/A">>)
        /\ \A f \in Fields \ {"company", "clause_reference", "assignment_clause_reference"} :
              Missing(f) => result[f] = Str(<<"Not Specified">>)
        /\ data.v = <<>> => IsFullDefault(result, company_name)

\* the texts J such that t is J inside a fenced code block: whitespace, an
\* opener (the fence, or the fence and the json tag), whitespace, J,
\* whitespace, the closing fence, whitespace, where J is a valid JSON object
IsJsonObject(j) == j # <<>> /\ j[1] = LBRACE /\ JsonLoads(j).ok
FencedBodies(t) ==
    LET s == Strip(t)
        inner == SubSeq(s, 2, Len(s) - 1)
    IN  IF Len(s) >= 2 /\ s[1] = FENCE /\ s[Len(s)] = FENCE
        THEN {j \in {Strip(inner)} : IsJsonObject(j)}
             \cup (IF inner # <<>> /\ inner[1] = JSONTAG
                   THEN {j \in {Strip(Tail(inner))} : IsJsonObject(j)}
                   ELSE {})
        ELSE {}

\* C6: markdown unwrap is transparent.  The record returned for a valid
\* JSON object J inside a fenced code block is the record that parsing J
\* alone returns.
C6_FenceTransparent ==
    Returned /\ raw.t = "str" =>
        \A j \in FencedBodies(raw.v) : result = parse_detailed_response(j, company_name)

C6_Witness ==
    /\ Returned
    /\ raw.t = "str"
    /\ raw.v = <<NL, FENCE, JSONTAG, LBRACE, QUOTE, "contract_name", QUOTE, COLON,
                 QUOTE, NAME, QUOTE, RBRACE, FENCE>>
    /\ FencedBodies(raw.v) # {}
    /\ result["contract_name"] = Str(<<NAME>>)

\* C7: when the slice from the first "{" to the last "}" parses, the JSON
\* stage alone determines the record and the heuristic stage does not run:
\* a pattern field the object does not have stays at its default even when
\* the text around the object holds a match of the field's pattern.
C7_JsonSkipsHeuristic ==
    Returned /\ Ran("json") =>
        /\ ~Ran("heuristic")
        /\ stages = <<"unwrap", "json">>
        /\ \A f \in PatternFields :
              ~HasKey(f) => result[f] = Str(<<"Not Specified">>)

C7_Witness ==
    /\ Returned
    /\ Ran("json")
    /\ ~HasKey("contract_name") /\ ReSearch("contract_name", text).found
    /\ ~HasKey("effective_date") /\ ReSearch("effective_date", text).found
    /\ result["contract_name"] = Str(<<"Not Specified">>)
    /\ result["effective_date"] = Str(<<"Not Specified">>)

\* the unwrapped text has no part that the JSON stage can decode: no "{",
\* no "}", the last "}" not after the first "{", or an invalid slice
IsFirstOpen(t, i) == t[i] = LBRACE /\ \A k \in 1..(i - 1) : t[k] # LBRACE
IsLastClose(t, j) == t[j] = RBRACE /\ \A k \in (j + 1)..Len(t) : t[k] # RBRACE
NoParsableJson(t) ==
    \A i \in 1..Len(t) : \A j \in 1..Len(t) :
        IsFirstOpen(t, i) /\ IsLastClose(t, j) => (j <= i \/ ~JsonLoads(SubSeq(t, i, j)).ok)

\* C8: the JSON candidate is the slice from the first "{" to the last "}"
\* of the unwrapped text; without a decodable candidate the call runs the
\* heuristic stage and returns the heuristic record.
C8_CandidateOrHeuristic ==
    /\ pc = "loads" =>
          \E i \in 1..Len(text) : \E j \in (i + 1)..Len(text) :
              /\ IsFirstOpen(text, i)
              /\ IsLastClose(text, j)
              /\ json_text = SubSeq(text, i, j)
    /\ pc = "fallback" => NoParsableJson(text)
    /\ Returned /\ raw.t = "str" /\ NoParsableJson(text) =>
          /\ exc = "none"
          /\ stages[Len(stages)] = "heuristic"
          /\ result = _extract_from_text_fallback(text, company_name)

C8_Witness ==
    /\ Returned
    /\ Ran("json_failed")
    /\ Ran("heuristic")
    /\ text = <<LBRACE, QUOTE, "company", QUOTE, COLON, QUOTE, NAME, QUOTE, RBRACE,
                LBRACE, RBRACE>>
    /\ result["contract_name"] = Str(<<"company">>)

\* "random prose with no JSON and no patterns" and "Invalid text with no
\* useful information" as lexemes: words, of which "no" is one
ProseExamples == {<<PROSE, WORD_NO, PROSE, WORD_NO, PROSE>>, <<PROSE, WORD_NO, PROSE>>}

\* C9: for plain prose with no JSON object and none of the recoverable
\* values in it, such as "random prose with no JSON and no patterns", the
\* call returns exactly the full-default record.
C9_PlainProseIsDefault ==
    Returned /\ raw.t = "str" /\ raw.v \in ProseExamples =>
        IsFullDefault(result, company_name)

\* the first double-quoted non-empty substring of t runs from i to j
IsQuotedAt(t, i, j) ==
    /\ i + 1 < j
    /\ t[i] = QUOTE /\ t[j] = QUOTE
    /\ \A k \in (i + 1)..(j - 1) : t[k] # QUOTE
IsFirstQuoted(t, i, j) ==
    /\ IsQuotedAt(t, i, j)
    /\ \A a \in 1..(i - 1) : \A b \in 1..Len(t) : ~IsQuotedAt(t, a, b)

ActionPhrases == {NOTIFY, NOACTION, NOACTION_LOWER}
IsFirstActionPhrase(t, i) ==
    t[i] \in ActionPhrases /\ \A k \in 1..(i - 1) : t[k] \notin ActionPhrases

\* C10: on the heuristic path contract_name is the content of the first
\* double-quoted non-empty substring of the text and action_required is
\* the first occurrence of an action phrase.
C10_HeuristicNameAndAction ==
    Returned /\ Ran("heuristic") =>
        /\ \A i \in 1..Len(text) : \A j \in 1..Len(text) :
              IsFirstQuoted(text, i, j) =>
                  result["contract_name"] = Str(SubSeq(text, i + 1, j - 1))
        /\ \A i \in 1..Len(text) :
              IsFirstActionPhrase(text, i) => result["action_required"] = Str(<<text[i]>>)
        /\ raw = Str(<<PROSE, QUOTE, NAME, QUOTE, PROSE, NOTIFY>>) =>
              /\ result["contract_name"] = Str(<<NAME>>)
              /\ result["action_required"] = Str(<<NOTIFY>>)

C10_Witness ==
    /\ Returned
    /\ Ran("heuristic")
    /\ raw = Str(<<PROSE, QUOTE, NAME, QUOTE, PROSE, NOTIFY>>)
    /\ result["contract_name"] = Str(<<NAME>>)
    /\ result["action_required"] = Str(<<NOTIFY>>)

\* the value a field has when nothing is recovered for it
KeepsDefault(f) == result[f] = _get_default_result(company_name)[f]

\* C26 as stated: on the heuristic path only contract_name, effective_date,
\* action_required and recommended_action can differ from their defaults.
C26_OnlyFourFieldsChange ==
    Returned /\ Ran("heuristic") =>
        \A f \in Fields \ {"contract_name", "effective_date", "action_required",
                           "recommended_action"} : KeepsDefault(f)

\* C26: on the heuristic path the five fields without a pattern,
\* renewal_termination_date, clause_reference, assignment_clause_reference,
\* material_corporate_structure_clauses and notices_clause_present, keep
\* their defaults for every text, and company is the identifier; the fields
\* that can differ are the seven with a pattern, which are the four named
\* ones and contract_counterparty, name_change_requires_notification and
\* is_assignment.
C26_FieldsWithoutPatternKeepDefault ==
    Returned /\ Ran("heuristic") =>
        \A f \in {"company", "renewal_termination_date", "clause_reference",
                  "assignment_clause_reference",
                  "material_corporate_structure_clauses",
                  "notices_clause_present"} : KeepsDefault(f)

C26_Witness ==
    /\ Returned
    /\ Ran("heuristic")
    /\ text = <<PROSE, QUOTE, NAME, QUOTE, PROSE, NOTIFY>>
    /\ \A f \in Fields \ PatternFields : KeepsDefault(f)
    /\ result["contract_counterparty"] = Str(<<NAME>>)
    /\ result["is_assignment"] = Str(<<"No">>)

ActionRequiredVocabulary ==
    {"Notification Required", "Consent Required", "No Action Required",
     "Further Legal Review Recommended"}
RecommendedActionVocabulary ==
    {"Send Notification", "Request Consent", "No Action", "Escalate for Legal Review"}

\* C27: on the heuristic path action_required is its default or exactly
\* one of the four action phrases, and recommended_action is its default or
\* exactly one of the four recommendations.
C27_ClosedVocabulary ==
    Returned /\ Ran("heuristic") =>
        /\ \/ KeepsDefault("action_required")
           \/ result["action_required"] \in {Str(<<w>>) : w \in ActionRequiredVocabulary}
        /\ \/ KeepsDefault("recommended_action")
           \/ result["recommended_action"] \in
                  {Str(<<w>>) : w \in RecommendedActionVocabulary}

\* C28: on the JSON path every value that is present, that is neither
\* absent nor null nor the empty string, is returned as its string form
\* with the whitespace around it removed; 0, false and nested objects are
\* present values.
C28_PresentValuesAreKept ==
    Returned /\ Ran("json") =>
        \A f \in Fields \ {"company"} :
            HasKey(f) /\ ~Missing(f) => result[f] = Str(Strip(PyStr(Given(f))))

(***************************************************************************)
(* Documents on disk.  A path is the sequence <<directory, stem,           *)
(* extension>>; what a library finds in the file is its status ("ok", or   *)
(* "importerror" when the library is not installed, or "error" when        *)
(* opening the file raises) and its parts: the pages of a PDF, the         *)
(* paragraphs and table cells of a .docx, the content of a .doc.  A part   *)
(* is the text the library returns for it, or Raise when it raises.        *)
(***************************************************************************)
Raise == [t |-> "raise", v |-> <<>>]

SHORT_TEXT == "Lease."
LONG_TEXT == "<a paragraph of 120 characters>"

\* str.lower(), on the lexemes that have upper-case letters
LowerLexeme(l) ==
    CASE l = ".PDF" -> ".pdf"
      [] l = "SCAN" -> "scan"
      [] l = "Assign" -> "assign"
      [] l = "CONSENT" -> "consent"
      [] OTHER -> l
Lower(s) == [i \in 1..Len(s) |-> LowerLexeme(s[i])]

\* os.path.join(root, file) and os.path.basename(path)
PathJoin(root, file) == <<root>> \o file
Basename(path) == Tail(path)

supported_extensions == <<".pdf", ".docx", ".doc">>

is_document_file(filename) ==
    \E k \in 1..Len(supported_extensions) :
        EndsWith(Lower(filename), <<supported_extensions[k]>>)

\* text += part.strip() + "\n" for every part whose strip() is not empty
RECURSIVE AppendStripped(_, _)
AppendStripped(parts, acc) ==
    IF parts = <<>> THEN acc
    ELSE AppendStripped(Tail(parts),
             IF Head(parts).t = "str" /\ Strip(Head(parts).v) # <<>>
             THEN acc \o Strip(Head(parts).v) \o <<NL>>
             ELSE acc)

Raises(parts) == \E k \in 1..Len(parts) : parts[k] = Raise

\* a page that raises is skipped (continue); a missing library and a file
\* that does not open end the extraction with None
_extract_text_with_tesseract_page_fails_document(doc) ==
    IF doc.status = "importerror" THEN PyNone
    ELSE IF doc.status = "error" THEN PyNone
    ELSE IF Raises(doc.parts) THEN PyNone
    ELSE LET extracted_text == AppendStripped(doc.parts, <<>>)
         IN  IF Strip(extracted_text) # <<>>
             THEN Str(Strip(extracted_text))
             ELSE PyNone
_extract_text_with_tesseract(doc) ==
    IF doc.status = "importerror" THEN PyNone
    ELSE IF doc.status = "error" THEN PyNone
    ELSE LET extracted_text == AppendStripped(doc.parts, <<>>)
         IN  IF Strip(extracted_text) # <<>>
             THEN Str(Strip(extracted_text))
             ELSE PyNone

extract_text_from_pdf(doc) ==
    LET ocr_text == _extract_text_with_tesseract(doc)
    IN  IF Truthy(ocr_text) THEN ocr_text ELSE PyNone

RECURSIVE ContentText(_)
ContentText(parts) ==
    IF parts = <<>> THEN <<>> ELSE Head(parts).v \o ContentText(Tail(parts))

\* inside a Word document nothing is skipped: an exception anywhere ends
\* the extraction with None
extract_text_from_word(doc) ==
    IF EndsWith(Lower(doc.path), <<".docx">>)
    THEN IF doc.status # "ok" \/ Raises(doc.parts) THEN PyNone
         ELSE LET t == AppendStripped(doc.parts, <<>>)
              IN  IF Strip(t) # <<>> THEN Str(Strip(t)) ELSE PyNone
    ELSE IF EndsWith(Lower(doc.path), <<".doc">>)
    THEN IF doc.status # "ok" \/ Raises(doc.parts) THEN PyNone
         ELSE LET t == ContentText(doc.parts)
              IN  IF Strip(t) # <<>> THEN Str(Strip(t)) ELSE PyNone
    ELSE PyNone

extract_text_from_document(doc) ==
    IF EndsWith(Lower(doc.path), <<".pdf">>) THEN extract_text_from_pdf(doc)
    ELSE IF EndsWith(Lower(doc.path), <<".docx">>) \/ EndsWith(Lower(doc.path), <<".doc">>)
    THEN extract_text_from_word(doc)
    ELSE PyNone

(***************************************************************************)
(* Folders: the files os.walk meets, in the order it meets them.  No two   *)
(* files of a folder have the same path.                                   *)
(***************************************************************************)
MaxFiles == 3

Dirs == {"contracts", "contracts/amendments"}

Readable == [status |-> "ok", parts |-> <<Str(<<NL, SHORT_TEXT, NL>>)>>]
PartlyReadable == [status |-> "ok", parts |-> <<Str(<<LONG_TEXT>>), Raise, Str(<<SHORT_TEXT>>)>>]
Blank == [status |-> "ok", parts |-> <<Str(<<NL>>)>>]
Broken == [status |-> "error", parts |-> <<>>]

File(dir, name, content) ==
    [path |-> PathJoin(dir, name), status |-> content.status, parts |-> content.parts]

FolderFiles ==
    UNION {
        {File(dir, <<"lease", ".pdf">>, c) : c \in {Readable, PartlyReadable, Blank}}
        \cup {File(dir, <<"SCAN", ".PDF">>, Readable)}
        \cup {File(dir, <<"msa", ".docx">>, c) : c \in {Readable, Broken}}
        \cup {File(dir, <<"notes", ".txt">>, Readable)}
        : dir \in Dirs}

Folders ==
    {f \in SeqsUpTo(FolderFiles, MaxFiles) :
        \A i \in 1..Len(f) : \A j \in 1..Len(f) : i # j => f[i].path # f[j].path}

\* the file os.walk found at a path
FileAt(files, path) == CHOOSE f \in {files[k] : k \in 1..Len(files)} : f.path = path

RECURSIVE get_all_documents_in_folder(_)
get_all_documents_in_folder(files) ==
    IF files = <<>> THEN <<>>
    ELSE (IF is_document_file(Basename(Head(files).path))
          THEN <<Head(files).path>> ELSE <<>>)
         \o get_all_documents_in_folder(Tail(files))

ZeroStats == [total |-> 0, successful |-> 0, failed |-> 0]

\* successful_texts[doc_path] = text, on a dict kept as its items in
\* insertion order
StoreTextByBasename(texts, doc_path, t) == DictPut(texts, Basename(doc_path), t)
StoreText(texts, doc_path, t) == DictPut(texts, doc_path, t)

(***************************************************************************)
(* extract_all_text_from_folder as a state machine                         *)
(***************************************************************************)
ScanInit ==
    /\ folder \in Folders
    /\ s_pc = "call"
    /\ document_files = <<>>
    /\ doc_index = 0
    /\ successful_texts = <<>>
    /\ failed_documents = <<>>
    /\ document_stats = <<>>
    /\ calls = <<>>
    /\ combined = <<>>
    /\ ParserAtRest /\ FilterAtRest /\ ExtractAtRest /\ RunAtRest

\* lines 273-282: discovery, and the early return of a folder without
\* documents
Discover ==
    /\ s_pc = "call"
    /\ document_files' = get_all_documents_in_folder(folder)
    /\ IF document_files' = <<>>
       THEN s_pc' = "done" /\ document_stats' = ZeroStats /\ doc_index' = doc_index
       ELSE s_pc' = "loop" /\ document_stats' = document_stats /\ doc_index' = 1
    /\ UNCHANGED <<folder, successful_texts, failed_documents, calls, combined>>
    /\ UNCHANGED <<parserVars, filterVars, extractVars, runVars>>

\* lines 287-293: one turn of the loop
ExtractNextAbortsOnFailure ==
    /\ s_pc = "loop"
    /\ doc_index <= Len(document_files)
    /\ LET doc_path == document_files[doc_index]
           t == extract_text_from_document(FileAt(folder, doc_path))
       IN  /\ calls' = Append(calls, doc_path)
           /\ IF Truthy(t)
              THEN /\ successful_texts' = StoreText(successful_texts, doc_path, t.v)
                   /\ failed_documents' = failed_documents
                   /\ doc_index' = doc_index + 1
              ELSE /\ successful_texts' = successful_texts
                   /\ failed_documents' = Append(failed_documents, Basename(doc_path))
                   /\ doc_index' = Len(document_files) + 1
    /\ UNCHANGED <<s_pc, folder, document_files, document_stats, combined>>
    /\ UNCHANGED <<parserVars, filterVars, extractVars, runVars>>
ExtractNext ==
    /\ s_pc = "loop"
    /\ doc_index <= Len(document_files)
    /\ LET doc_path == document_files[doc_index]
           t == extract_text_from_document(FileAt(folder, doc_path))
       IN  /\ calls' = Append(calls, doc_path)
           /\ IF Truthy(t)
              THEN /\ successful_texts' = StoreText(successful_texts, doc_path, t.v)
                   /\ failed_documents' = failed_documents
              ELSE /\ successful_texts' = successful_texts
                   /\ failed_documents' = Append(failed_documents, Basename(doc_path))
    /\ doc_index' = doc_index + 1
    /\ UNCHANGED <<s_pc, folder, document_files, document_stats, combined>>
    /\ UNCHANGED <<parserVars, filterVars, extractVars, runVars>>

\* lines 295-309: the counts, taken from the three collections
Finish ==
    /\ s_pc = "loop"
    /\ doc_index > Len(document_files)
    /\ document_stats' = [total |-> Len(document_files),
                          successful |-> Len(successful_texts),
                          failed |-> Len(failed_documents)]
    /\ s_pc' = "done"
    /\ UNCHANGED <<folder, document_files, doc_index, successful_texts,
                   failed_documents, calls, combined>>
    /\ UNCHANGED <<parserVars, filterVars, extractVars, runVars>>

(***************************************************************************)
(* combine_document_texts                                                  *)
(***************************************************************************)
HDR_OPEN == "=== DOCUMENT: "
HDR_CLOSE == " ==="

\* f"=== DOCUMENT: {doc_name} ==="
HeaderOfFullPath(doc_path) == <<HDR_OPEN>> \o doc_path \o <<HDR_CLOSE>>
Header(doc_path) == <<HDR_OPEN>> \o Basename(doc_path) \o <<HDR_CLOSE>>

RECURSIVE CombineItems(_)
CombineItems(items) ==
    IF items = <<>> THEN <<>>
    ELSE <<NL, NL>> \o Header(Head(items)[1]) \o <<NL, NL>>
         \o Head(items)[2]
         \o <<NL, NL>>
         \o CombineItems(Tail(items))

combine_document_texts(document_texts) ==
    IF document_texts = <<>> THEN <<>>
    ELSE Strip(CombineItems(document_texts))

\* the public method applied to the texts of a finished scan, whatever
\* their number
Combine ==
    /\ s_pc = "done"
    /\ combined' = combine_document_texts(successful_texts)
    /\ s_pc' = "combined"
    /\ UNCHANGED <<folder, document_files, doc_index, successful_texts,
                   failed_documents, document_stats, calls>>
    /\ UNCHANGED <<parserVars, filterVars, extractVars, runVars>>

ScanNext == Discover \/ ExtractNext \/ Finish \/ Combine

SpecScan == ScanInit /\ [][ScanNext]_vars

(***************************************************************************)
(* Properties of the folder scan                                           *)
(***************************************************************************)
ScanReturned == s_pc \in {"done", "combined"}

\* whether the extractor obtains text from the file at a path
Succeeds(path) == Truthy(extract_text_from_document(FileAt(folder, path)))

\* the paths of the folder that are documents, in the order of the walk
Discovered == SelectSeq([k \in 1..Len(folder) |-> folder[k].path],
                        LAMBDA q : is_document_file(Basename(q)))

\* C11: for every folder and every combination of files that succeed and
\* fail, the counts of a returned scan satisfy total = successful + failed,
\* successful is the size of successful_texts, failed is the length of
\* failed_documents, and total is the number of documents in the folder.
C11_StatsAddUp ==
    ScanReturned =>
        /\ document_stats.total = document_stats.successful + document_stats.failed
        /\ document_stats.successful = Len(successful_texts)
        /\ document_stats.failed = Len(failed_documents)
        /\ document_stats.total = Len(Discovered)

\* two documents of the same name in two directories were both read, and
\* another document failed
C11_Witness ==
    /\ ScanReturned
    /\ document_stats.failed >= 1
    /\ \E i \in 1..Len(successful_texts) : \E j \in 1..Len(successful_texts) :
          /\ i # j
          /\ Basename(successful_texts[i][1]) = Basename(successful_texts[j][1])

\* the keys of a dict in insertion order; the basenames of a list of paths
Keys(items) == [k \in 1..Len(items) |-> items[k][1]]
Basenames(paths) == [k \in 1..Len(paths) |-> Basename(paths[k])]
IsPrefix(s, t) == Len(s) <= Len(t) /\ s = SubSeq(t, 1, Len(s))

\* C12: the extractor is called once for every discovered file, in the
\* order of discovery; a file that fails is recorded by its basename and
\* the scan goes on; when the scan returns every discovered file is in
\* exactly one of successful_texts, under its full path, and
\* failed_documents: the keys are the files that were read, in order, the
\* failures are the basenames of the others, in order.
C12_EveryFileOnce ==
    /\ IsPrefix(calls, Discovered)
    /\ ScanReturned =>
          /\ calls = Discovered
          /\ Keys(successful_texts) = SelectSeq(Discovered, Succeeds)
          /\ failed_documents =
                 Basenames(SelectSeq(Discovered, LAMBDA q : ~Succeeds(q)))
          /\ Len(successful_texts) + Len(failed_documents) = Len(Discovered)
          /\ \A i \in 1..Len(successful_texts) : \A j \in 1..Len(successful_texts) :
                 i # j => successful_texts[i][1] # successful_texts[j][1]

\* a file failed and a file discovered after it was read
C12_Witness ==
    /\ ScanReturned
    /\ \E i \in 1..Len(calls) : \E j \in 1..Len(calls) :
          /\ i < j
          /\ ~Succeeds(calls[i])
          /\ Succeeds(calls[j])
          /\ \E k \in 1..Len(failed_documents) : failed_documents[k] = Basename(calls[i])
          /\ \E k \in 1..Len(successful_texts) : successful_texts[k][1] = calls[j]

HeaderPositions(t) == {i \in 1..Len(t) : t[i] = HDR_OPEN}
\* the position of the k-th header of a text
KthHeader(t, k) ==
    CHOOSE i \in HeaderPositions(t) :
        Cardinality({j \in HeaderPositions(t) : j < i}) = k - 1

\* the header line of a document at position i of a text, and the text t
\* after it
HeaderLineAt(c, i, name) ==
    /\ (i = 1 \/ c[i - 1] = NL)
    /\ SubSeq(c, i, i + Len(name) + 1) = <<HDR_OPEN>> \o name \o <<HDR_CLOSE>>
    /\ SubSeq(c, i + Len(name) + 2, i + Len(name) + 3) = <<NL, NL>>
FollowedBy(c, i, name, t) ==
    SubSeq(c, i + Len(name) + 4, i + Len(name) + 3 + Len(t)) = t

\* C13: combining an empty mapping gives the empty string; combining a
\* non-empty mapping gives a text with as many header lines
\* "=== DOCUMENT: <basename> ===" as entries, the k-th header naming the
\* k-th entry in insertion order and being followed by that entry's text.
C13_OneHeaderPerEntry ==
    s_pc = "combined" =>
        /\ successful_texts = <<>> => combined = <<>>
        /\ successful_texts # <<>> =>
              /\ Cardinality(HeaderPositions(combined)) = Len(successful_texts)
              /\ \A k \in 1..Len(successful_texts) :
                    LET i == KthHeader(combined, k)
                        name == Basename(successful_texts[k][1])
                    IN  /\ HeaderLineAt(combined, i, name)
                        /\ FollowedBy(combined, i, name, successful_texts[k][2])

\* three documents were combined, two of them of the same name
C13_Witness ==
    /\ s_pc = "combined"
    /\ Len(successful_texts) = 3
    /\ Cardinality(HeaderPositions(combined)) = 3
    /\ Basename(successful_texts[1][1]) = Basename(successful_texts[3][1])

(***************************************************************************)
(* TextFilter.  A text is a sequence of words and runs of whitespace.  A   *)
(* lexeme of such a text is a record: s, its characters as a sequence of   *)
(* pieces (so that a term can be part of a word), and id, the place of     *)
(* the word in the text the filter was given (0 for whitespace).  The code *)
(* never reads id; it lets a property tell two equal words apart.          *)
(***************************************************************************)
Word(i, s) == [id |-> i, s |-> s]
Space == [id |-> 0, s |-> <<SP>>]
BlankLine == [id |-> 0, s |-> <<NL, NL>>]

IsSpace(l) == \A k \in 1..Len(l.s) : l.s[k] \in Whitespace

\* str.split(): the maximal runs of characters that are not whitespace
Split(t) == SelectSeq(t, LAMBDA l : ~IsSpace(l))

\* sep.join(parts), by halves
RECURSIVE Join(_, _)
Join(sep, parts) ==
    IF parts = <<>> THEN <<>>
    ELSE IF Len(parts) = 1 THEN Head(parts)
    ELSE Join(sep, SubSeq(parts, 1, Len(parts) \div 2))
         \o <<sep>>
         \o Join(sep, SubSeq(parts, Len(parts) \div 2 + 1, Len(parts)))

\* term in word_lower
Contains(word_lower, term) ==
    \E i \in 0..(Len(word_lower) - Len(term)) :
        SubSeq(word_lower, i + 1, i + Len(term)) = term

Max(a, b) == IF a >= b THEN a ELSE b
Min(a, b) == IF a <= b THEN a ELSE b

\* __init__: [term.lower() for term in search_terms]
LowerTerms(terms) == [k \in 1..Len(terms) |-> Lower(terms[k])]

\* line 17
EarlyReturnOnEmptyTextOnly(t, terms) == t = <<>>
EarlyReturn(t, terms) == t = <<>> \/ terms = <<>>

\* positions count from 0, as the indexes of a Python list do
Matches(w, terms) ==
    \E k \in 1..Len(terms) : Contains(Lower(w.s), terms[k])

_find_search_term_positions(ws, terms) ==
    SelectSeq([i \in 1..Len(ws) |-> i - 1], LAMBDA q : Matches(ws[q + 1], terms))

_create_windows_unclipped(positions, total_words, size) ==
    {<<positions[k] - (size \div 2), positions[k] + (size \div 2)>> :
        k \in 1..Len(positions)}
_create_windows(positions, total_words, size) ==
    {<<Max(0, positions[k] - (size \div 2)),
       Min(total_words, positions[k] + (size \div 2))>> :
        k \in 1..Len(positions)}

\* sorted(windows): tuples in lexicographic order
Before(a, b) == a[1] < b[1] \/ (a[1] = b[1] /\ a[2] <= b[2])
RECURSIVE Sorted(_)
Sorted(S) ==
    IF S = {} THEN <<>>
    ELSE LET first == CHOOSE a \in S : \A b \in S : Before(a, b)
         IN  <<first>> \o Sorted(S \ {first})

MergeGap == 100

\* line 85
MergeableNever(start, current_end) == FALSE
MergeableWhenOverlapping(start, current_end) == start <= current_end
Mergeable(start, current_end) == start <= current_end + MergeGap

\* line 86
\* mutant: the window in progress ends where the last merged window ends
ExtendToLast(current_end, end) == end
Extend(current_end, end) == Max(current_end, end)

\* lines 84-89, the list without the window in progress
RECURSIVE MergeLoop(_, _, _, _)
MergeLoop(rest, merged, current_start, current_end) ==
    IF rest = <<>> THEN <<merged, <<current_start, current_end>> >>
    ELSE IF Mergeable(Head(rest)[1], current_end)
    THEN MergeLoop(Tail(rest), merged, current_start, Extend(current_end, Head(rest)[2]))
    ELSE MergeLoop(Tail(rest), Append(merged, <<current_start, current_end>>),
                   Head(rest)[1], Head(rest)[2])

_merge_overlapping_windows(ws) ==
    IF ws = {} THEN <<>>
    ELSE LET sorted_windows == Sorted(ws)
             r == MergeLoop(Tail(sorted_windows), <<>>,
                            Head(sorted_windows)[1], Head(sorted_windows)[2])
         IN  Append(r[1], r[2])

\* words[start:end] for 0 <= start and end <= len(words)
Slice(ws, start, end) == SubSeq(ws, start + 1, end)

_extract_sections(ws, wins) ==
    [k \in 1..Len(wins) |-> Join(Space, [j \in 1..Len(Slice(ws, wins[k][1], wins[k][2])) |->
                                            <<Slice(ws, wins[k][1], wins[k][2])[j]>>])]

filter_text(t, terms, size) ==
    IF EarlyReturn(t, terms) THEN t
    ELSE LET ws == Split(t)
             positions == _find_search_term_positions(ws, terms)
         IN  IF positions = <<>> THEN <<>>
             ELSE Join(BlankLine,
                       _extract_sections(ws,
                           _merge_overlapping_windows(
                               _create_windows(positions, Len(ws), size))))

(***************************************************************************)
(* Inputs of the filter                                                    *)
(***************************************************************************)
MaxWords == 3
LongLen == 230
MaxMatches == 3
MaxWindows == 3

THE == <<"the">>
ASSIGNMENT == <<"Assign", "ment", ",">>
Vocabulary == {THE, ASSIGNMENT, <<"CONSENT">>}

\* the lists a TextFilter is built with: none, one term, a term with a
\* capital, two terms, a term of several words
TermLists ==
    { <<>>,
      << <<"assign", "ment">> >>,
      << <<"Assign">> >>,
      << <<"consent">>, <<"assign", "ment">> >>,
      << <<"change", SP, "of", SP, "control">> >> }

\* 1000 is the default and the size the clients pass
WindowSizes == {0, 1, 2, 3, 4, 10, 210, 1000}

\* the words of a text, each at its place
Numbered(contents) == [i \in 1..Len(contents) |-> <<Word(i - 1, contents[i])>>]

ShortTexts ==
    {Join(Space, Numbered(c)) : c \in SeqsUpTo(Vocabulary, MaxWords)}
    \cup {<<BlankLine>> \o Join(BlankLine, Numbered(c)) \o <<Space>> :
             c \in SeqsUpTo(Vocabulary, MaxWords)}

\* long texts: LongLen words, the matching ones at some of these places,
\* chosen around the gap of 100 words and at both ends of the text
MatchPlaces == {q \in {0, 3, 4, 105, 106, 229} : q < LongLen}

LongText(places) ==
    Join(Space, Numbered([i \in 1..LongLen |->
                             IF (i - 1) \in places THEN ASSIGNMENT ELSE THE]))

LongTexts ==
    {LongText(places) : places \in {P \in SUBSET MatchPlaces : Cardinality(P) <= MaxMatches}}

FilterTexts == ShortTexts \cup LongTexts

\* sets of windows handed to _merge_overlapping_windows alone: intervals
\* of any length, nested, overlapping, adjacent and apart
WindowPoints == {0, 50, 100, 101, 150, 251}
SomeWindows == {<<a, b>> : a \in WindowPoints, b \in WindowPoints}
WellFormedWindows == {w \in SomeWindows : w[1] <= w[2]}
WindowSets == {{q[k] : k \in 1..Len(q)} : q \in SeqsUpTo(WellFormedWindows, MaxWindows)}

(***************************************************************************)
(* filter_text as a state machine; the state after construction holds the  *)
(* lowered terms and the window size.  A run starts either with a call of  *)
(* filter_text or with a call of _merge_overlapping_windows alone.         *)
(***************************************************************************)
FilterInit ==
    /\ \/ /\ f_pc = "call"
          /\ combined_text \in FilterTexts
          /\ search_terms \in {LowerTerms(ts) : ts \in TermLists}
          /\ window_size \in WindowSizes
          /\ windows = {}
       \/ /\ f_pc = "merge_call"
          /\ combined_text = <<>>
          /\ search_terms = <<>>
          /\ window_size = 0
          /\ windows \in WindowSets
    /\ words = <<>>
    /\ term_positions = <<>>
    /\ merged_windows = <<>>
    /\ filtered_text = <<>>
    /\ ParserAtRest /\ ScanAtRest /\ ExtractAtRest /\ RunAtRest

\* lines 17-18
FilterEarlyReturn ==
    /\ f_pc = "call"
    /\ EarlyReturn(combined_text, search_terms)
    /\ filtered_text' = combined_text
    /\ f_pc' = "done"
    /\ UNCHANGED <<combined_text, search_terms, window_size, words,
                   term_positions, windows, merged_windows>>
    /\ UNCHANGED <<parserVars, scanVars, extractVars, runVars>>

\* lines 20-21
FilterFind ==
    /\ f_pc = "call"
    /\ ~EarlyReturn(combined_text, search_terms)
    /\ words' = Split(combined_text)
    /\ term_positions' = _find_search_term_positions(words', search_terms)
    /\ f_pc' = "found"
    /\ UNCHANGED <<combined_text, search_terms, window_size, windows,
                   merged_windows, filtered_text>>
    /\ UNCHANGED <<parserVars, scanVars, extractVars, runVars>>

\* lines 23-25
FilterNoMatch ==
    /\ f_pc = "found"
    /\ term_positions = <<>>
    /\ filtered_text' = <<>>
    /\ f_pc' = "done"
    /\ UNCHANGED <<combined_text, search_terms, window_size, words,
                   term_positions, windows, merged_windows>>
    /\ UNCHANGED <<parserVars, scanVars, extractVars, runVars>>

\* line 27
FilterWindows ==
    /\ f_pc = "found"
    /\ term_positions # <<>>
    /\ windows' = _create_windows(term_positions, Len(words), window_size)
    /\ f_pc' = "windows"
    /\ UNCHANGED <<combined_text, search_terms, window_size, words,
                   term_positions, merged_windows, filtered_text>>
    /\ UNCHANGED <<parserVars, scanVars, extractVars, runVars>>

\* line 28
FilterMerge ==
    /\ f_pc = "windows"
    /\ merged_windows' = _merge_overlapping_windows(windows)
    /\ f_pc' = "merged"
    /\ UNCHANGED <<combined_text, search_terms, window_size, words,
                   term_positions, windows, filtered_text>>
    /\ UNCHANGED <<parserVars, scanVars, extractVars, runVars>>

\* lines 29-34
FilterExtract ==
    /\ f_pc = "merged"
    /\ filtered_text' = Join(BlankLine, _extract_sections(words, merged_windows))
    /\ f_pc' = "done"
    /\ UNCHANGED <<combined_text, search_terms, window_size, words,
                   term_positions, windows, merged_windows>>
    /\ UNCHANGED <<parserVars, scanVars, extractVars, runVars>>

\* _merge_overlapping_windows called on a set of windows
MergeAlone ==
    /\ f_pc = "merge_call"
    /\ merged_windows' = _merge_overlapping_windows(windows)
    /\ f_pc' = "merge_return"
    /\ UNCHANGED <<combined_text, search_terms, window_size, words,
                   term_positions, windows, filtered_text>>
    /\ UNCHANGED <<parserVars, scanVars, extractVars, runVars>>

FilterNext ==
    \/ FilterEarlyReturn
    \/ FilterFind
    \/ FilterNoMatch
    \/ FilterWindows
    \/ FilterMerge
    \/ FilterExtract
    \/ MergeAlone

SpecFilter == FilterInit /\ [][FilterNext]_vars

(***************************************************************************)
(* Properties of the filter                                                *)
(***************************************************************************)
FilterReturned == f_pc = "done"

\* C14: filter_text returns its input unchanged when the list of search
\* terms is empty, whatever the text and the window size, and returns the
\* empty string when the text is empty, whatever the terms and the size.
C14_EmptyTermsOrText ==
    FilterReturned =>
        /\ search_terms = <<>> => filtered_text = combined_text
        /\ combined_text = <<>> => filtered_text = <<>>

\* a text of three words, one of them a term elsewhere, came back whole
C14_Witness ==
    /\ FilterReturned
    /\ search_terms = <<>>
    /\ Len(Split(combined_text)) = 3
    /\ \E k \in 1..Len(combined_text) : combined_text[k].s = ASSIGNMENT
    /\ filtered_text = combined_text

SomeWordMatches ==
    \E k \in 1..Len(combined_text) :
        ~IsSpace(combined_text[k]) /\ Matches(combined_text[k], search_terms)

\* C15: for a non-empty text and a non-empty list of terms, filter_text
\* returns the empty string if and only if no word of the text contains a
\* search term, case-insensitively; when a word matches the output is not
\* empty.
C15_EmptyIffNoMatch ==
    FilterReturned /\ combined_text # <<>> /\ search_terms # <<>> =>
        (filtered_text = <<>> <=> ~SomeWordMatches)

Merged == f_pc \in {"merged", "merge_return"} \/ (FilterReturned /\ term_positions # <<>>)

\* C16: for every set of windows the list _merge_overlapping_windows
\* returns is sorted by start, its windows do not overlap, and each window
\* starts more than 100 words after the end of the one before it.
C16_MergedAreApart ==
    Merged =>
        /\ windows = {} <=> merged_windows = <<>>
        /\ \A i \in 1..Len(merged_windows) : \A j \in 1..Len(merged_windows) :
              i < j =>
                  /\ merged_windows[i][1] < merged_windows[j][1]
                  /\ merged_windows[i][2] <= merged_windows[j][1]
        /\ \A k \in 1..(Len(merged_windows) - 1) :
              merged_windows[k + 1][1] > merged_windows[k][2] + 100

\* three windows were merged into two: two of them were 100 words apart
C16_Witness ==
    /\ f_pc = "merge_return"
    /\ windows = {<<0, 0>>, <<100, 150>>, <<251, 251>>}
    /\ merged_windows = << <<0, 150>>, <<251, 251>> >>

InRange(w) == 0 <= w[1] /\ w[1] <= w[2] /\ w[2] <= Len(words)

\* C17: for every window size that is not negative, every text and every
\* match, each window _create_windows builds and each window left after
\* merging satisfies 0 <= start <= end <= number of words.
C17_WindowsInRange ==
    window_size >= 0 /\ f_pc \in {"windows", "merged", "done"} =>
        /\ \A w \in windows : InRange(w)
        /\ \A k \in 1..Len(merged_windows) : InRange(merged_windows[k])

\* a window was cut at the start of the text and another at its end
C17_Witness ==
    /\ f_pc = "merged"
    /\ window_size = 10
    /\ <<0, 5>> \in windows
    /\ <<Len(words) - 6, Len(words)>> \in windows
    /\ Len(merged_windows) = 2

C19_SecondPassKeepsWords ==
    FilterReturned =>
        Split(filter_text(filtered_text, search_terms, window_size))
            = Split(filtered_text)

\* the words words[start:end] of a window include the word at position p
Covers(w, p) == w[1] <= p /\ p < w[2]

\* C29: for every positive window size, every word that matches a term
\* lies inside the window built around its position, inside a window left
\* after merging, and so is a word of the filtered output.
C29_MatchIsInOutput ==
    window_size > 0 =>
        /\ f_pc \in {"windows", "merged", "done"} =>
              \A k \in 1..Len(term_positions) :
                  \E w \in windows : Covers(w, term_positions[k])
        /\ f_pc \in {"merged", "done"} =>
              \A k \in 1..Len(term_positions) :
                  \E j \in 1..Len(merged_windows) :
                      Covers(merged_windows[j], term_positions[k])
        /\ FilterReturned =>
              \A k \in 1..Len(term_positions) :
                  \E j \in 1..Len(Split(filtered_text)) :
                      Split(filtered_text)[j].id = term_positions[k]

\* an input window lies inside a merged one
Inside(w, m) == m[1] <= w[1] /\ w[2] <= m[2]
MergedAround(w) == {k \in 1..Len(merged_windows) : Inside(w, merged_windows[k])}

\* two windows with a gap of at most 100 words between them
Near(a, b) == a[1] <= b[2] + 100 /\ b[1] <= a[2] + 100

\* the input windows linked to one of group by a chain of near windows
RECURSIVE ChainFrom(_)
ChainFrom(group) ==
    LET more == {w \in windows \ group : \E g \in group : Near(g, w)}
    IN  IF more = {} THEN group ELSE ChainFrom(group \cup more)

\* C30: merging loses no coverage and is minimal: every input window lies
\* inside exactly one merged window; every merged window starts where an
\* input window starts and ends where an input window ends; two input
\* windows lie in the same merged window if and only if a chain of input
\* windows with gaps of at most 100 words links them.
C30_MergeKeepsCoverage ==
    Merged =>
        /\ \A w \in windows : Cardinality(MergedAround(w)) = 1
        /\ \A k \in 1..Len(merged_windows) :
              /\ \E w \in windows : w[1] = merged_windows[k][1]
              /\ \E w \in windows : w[2] = merged_windows[k][2]
        /\ \A a \in windows : \A b \in windows :
              MergedAround(a) = MergedAround(b) <=> b \in ChainFrom({a})

\* the first and the last window are 150 words apart and are merged
\* through the one between them; a longer window holds a shorter one
C30_Witness ==
    /\ f_pc = "merge_return"
    /\ windows = {<<0, 0>>, <<100, 100>>, <<150, 251>>}
    /\ ~Near(<<0, 0>>, <<150, 251>>)
    /\ merged_windows = << <<0, 251>> >>

(***************************************************************************)
(* PDFProcessor: the two libraries that read the text layer of a PDF.      *)
(* What a library finds in a file is, as for OCR, a status and the texts   *)
(* of the pages.                                                           *)
(***************************************************************************)
\* len(text), for the lexemes a document is made of
Chars(l) ==
    CASE l = LONG_TEXT -> 120
      [] l = SHORT_TEXT -> 6
      [] OTHER -> 1
RECURSIVE CharLen(_)
CharLen(t) == IF t = <<>> THEN 0 ELSE Chars(Head(t)) + CharLen(Tail(t))

\* if page_text: text += page_text + "\n"; an exception gives ""
RECURSIVE AppendPages(_, _)
AppendPages(parts, acc) ==
    IF parts = <<>> THEN acc
    ELSE AppendPages(Tail(parts),
             IF Head(parts).v # <<>> THEN acc \o Head(parts).v \o <<NL>> ELSE acc)

LayerText(layer) ==
    IF layer.status # "ok" \/ Raises(layer.parts) THEN <<>>
    ELSE AppendPages(layer.parts, <<>>)

_extract_with_pdfplumber(doc) == LayerText(doc.plumber)
_extract_with_pypdf2(doc) == LayerText(doc.pypdf2)

MinimalLength == 100

\* line 29: not text or len(text.strip()) < 100
MinimalWhenEmpty(t) == t = <<>>
Minimal(t) == t = <<>> \/ CharLen(Strip(t)) < MinimalLength

(***************************************************************************)
(* Inputs of the extractors                                                *)
(***************************************************************************)
MaxParts == 2

PartOutcomes ==
    {Raise, Str(<<>>), Str(<<NL>>), Str(<<NL, SHORT_TEXT, NL>>), Str(<<LONG_TEXT>>)}
PageTexts == {Str(<<>>), Str(<<NL>>), Str(<<SHORT_TEXT>>), Str(<<LONG_TEXT>>)}

Contents ==
    {[status |-> "ok", parts |-> q] : q \in SeqsUpTo(PartOutcomes, MaxParts)}
    \cup {[status |-> st, parts |-> <<>>] : st \in {"importerror", "error"}}

Layers ==
    {[status |-> "ok", parts |-> q] : q \in SeqsUpTo(PageTexts, MaxParts)}
    \cup {[status |-> "error", parts |-> <<>>]}

NoLayer == [status |-> "ok", parts |-> <<>>]
TextLayer == [status |-> "ok", parts |-> <<Str(<<LONG_TEXT>>)>>]

DocumentNames ==
    { <<"lease", ".pdf">>, <<"SCAN", ".PDF">>, <<"msa", ".docx">>,
      <<"old", ".doc">>, <<"notes", ".txt">> }

Document(name, content, first, second) ==
    [path |-> PathJoin("contracts", name), status |-> content.status,
     parts |-> content.parts, plumber |-> first, pypdf2 |-> second]

\* the documents given to DocumentProcessor: every outcome of OCR and of
\* the Word libraries, with and without a text layer
ProcessorDocuments ==
    {Document(n, c, l, l) : n \in DocumentNames, c \in Contents, l \in {NoLayer, TextLayer}}

\* the documents given to PDFProcessor: every outcome of the two libraries
PdfDocuments ==
    {Document(n, Readable, first, second) :
        n \in {<<"lease", ".pdf">>, <<"SCAN", ".PDF">>}, first \in Layers, second \in Layers}

IsPdf(doc) == EndsWith(Lower(doc.path), <<".pdf">>)
IsWord(doc) ==
    EndsWith(Lower(doc.path), <<".docx">>) \/ EndsWith(Lower(doc.path), <<".doc">>)

(***************************************************************************)
(* The extractors as a state machine.  A run is a call of                  *)
(* DocumentProcessor.extract_text_from_document or a call of               *)
(* PDFProcessor.extract_text_from_pdf; attempts lists the libraries the    *)
(* call has used, in order.                                                *)
(***************************************************************************)
ExtractInit ==
    /\ \/ x_pc = "call" /\ document \in ProcessorDocuments
       \/ x_pc = "pdf_call" /\ document \in PdfDocuments
    /\ extracted = PyNone
    /\ attempts = <<>>
    /\ ParserAtRest /\ FilterAtRest /\ ScanAtRest /\ RunAtRest

\* document_processor.py lines 245-246
DispatchPdf ==
    /\ x_pc = "call"
    /\ IsPdf(document)
    /\ x_pc' = "pdf"
    /\ UNCHANGED <<document, extracted, attempts>>
    /\ UNCHANGED <<parserVars, filterVars, scanVars, runVars>>

\* lines 247-248
DispatchWord ==
    /\ x_pc = "call"
    /\ ~IsPdf(document)
    /\ IsWord(document)
    /\ x_pc' = "word"
    /\ UNCHANGED <<document, extracted, attempts>>
    /\ UNCHANGED <<parserVars, filterVars, scanVars, runVars>>

\* lines 249-251
Unsupported ==
    /\ x_pc = "call"
    /\ ~IsPdf(document)
    /\ ~IsWord(document)
    /\ extracted' = PyNone
    /\ x_pc' = "done"
    /\ UNCHANGED <<document, attempts>>
    /\ UNCHANGED <<parserVars, filterVars, scanVars, runVars>>

\* lines 45-61: OCR, and nothing else
OcrAfterTextLayer ==
    /\ x_pc = "pdf"
    /\ IF Strip(_extract_with_pdfplumber(document)) # <<>>
       THEN /\ attempts' = Append(attempts, "pdfplumber")
            /\ extracted' = Str(Strip(_extract_with_pdfplumber(document)))
       ELSE /\ attempts' = attempts \o <<"pdfplumber", "tesseract">>
            /\ extracted' = extract_text_from_pdf(document)
    /\ x_pc' = "done"
    /\ UNCHANGED document
    /\ UNCHANGED <<parserVars, filterVars, scanVars, runVars>>
OcrOnly ==
    /\ x_pc = "pdf"
    /\ attempts' = Append(attempts, "tesseract")
    /\ extracted' = extract_text_from_pdf(document)
    /\ x_pc' = "done"
    /\ UNCHANGED document
    /\ UNCHANGED <<parserVars, filterVars, scanVars, runVars>>

\* the import of the library, the opening of the file or the reading of
\* a part raises
LibraryRaises(doc) == doc.status # "ok" \/ Raises(doc.parts)

WordLibrary ==
    IF EndsWith(Lower(document.path), <<".docx">>) THEN "python-docx" ELSE "win32com"

\* lines 154-181 and 189-224: the library reads the document
WordExtract ==
    /\ x_pc = "word"
    /\ ~LibraryRaises(document)
    /\ attempts' = Append(attempts, WordLibrary)
    /\ extracted' = extract_text_from_word(document)
    /\ x_pc' = "done"
    /\ UNCHANGED document
    /\ UNCHANGED <<parserVars, filterVars, scanVars, runVars>>

\* the same lines, when the library raises: an exception is in flight
WordRaises ==
    /\ x_pc = "word"
    /\ LibraryRaises(document)
    /\ attempts' = Append(attempts, WordLibrary)
    /\ x_pc' = "word_except"
    /\ UNCHANGED <<document, extracted>>
    /\ UNCHANGED <<parserVars, filterVars, scanVars, runVars>>

\* lines 182-187 and 226-231 (behind them 238-240 and 253-255): the
\* handlers log and return None
WordHandlerLetsThrough ==
    /\ x_pc = "word_except"
    /\ x_pc' = "escaped"
    /\ UNCHANGED <<document, extracted, attempts>>
    /\ UNCHANGED <<parserVars, filterVars, scanVars, runVars>>
WordHandler ==
    /\ x_pc = "word_except"
    /\ extracted' = PyNone
    /\ x_pc' = "done"
    /\ UNCHANGED <<document, attempts>>
    /\ UNCHANGED <<parserVars, filterVars, scanVars, runVars>>

\* pdf_processor.py line 26
Plumber ==
    /\ x_pc = "pdf_call"
    /\ attempts' = Append(attempts, "pdfplumber")
    /\ extracted' = Str(_extract_with_pdfplumber(document))
    /\ x_pc' = "first"
    /\ UNCHANGED document
    /\ UNCHANGED <<parserVars, filterVars, scanVars, runVars>>

\* lines 29-31
PyPdf2 ==
    /\ x_pc = "first"
    /\ Minimal(extracted.v)
    /\ attempts' = Append(attempts, "pypdf2")
    /\ extracted' = Str(_extract_with_pypdf2(document))
    /\ x_pc' = "second"
    /\ UNCHANGED document
    /\ UNCHANGED <<parserVars, filterVars, scanVars, runVars>>

Chosen == x_pc = "second" \/ (x_pc = "first" /\ ~Minimal(extracted.v))

\* lines 33-37
PdfReturn ==
    /\ Chosen
    /\ Truthy(extracted)
    /\ x_pc' = "returned"
    /\ UNCHANGED <<document, extracted, attempts>>
    /\ UNCHANGED <<parserVars, filterVars, scanVars, runVars>>

\* lines 33-34 and 39-42: the exception leaves the method
PdfRaise ==
    /\ Chosen
    /\ ~Truthy(extracted)
    /\ x_pc' = "raised"
    /\ UNCHANGED <<document, extracted, attempts>>
    /\ UNCHANGED <<parserVars, filterVars, scanVars, runVars>>

ExtractorNext ==
    \/ DispatchPdf
    \/ DispatchWord
    \/ Unsupported
    \/ OcrOnly
    \/ WordExtract
    \/ WordRaises
    \/ WordHandler
    \/ Plumber
    \/ PyPdf2
    \/ PdfReturn
    \/ PdfRaise

SpecExtract == ExtractInit /\ [][ExtractorNext]_vars

(***************************************************************************)
(* Properties of the extractors                                            *)
(***************************************************************************)
Strategies == <<"pdfplumber", "pypdf2", "tesseract">>

Finished == x_pc \in {"done", "returned", "raised"}

Used(strategy) == \E k \in 1..Len(attempts) : attempts[k] = strategy

\* the text a strategy obtains from a document, without the whitespace
\* around it; empty when it obtains none or raises
Yield(doc, strategy) ==
    CASE strategy = "pdfplumber" -> Strip(_extract_with_pdfplumber(doc))
      [] strategy = "pypdf2" -> Strip(_extract_with_pypdf2(doc))
      [] OTHER -> _extract_text_with_tesseract(doc).v

SomePageHasText(doc) ==
    /\ doc.status = "ok"
    /\ \E k \in 1..Len(doc.parts) :
          doc.parts[k].t = "str" /\ Strip(doc.parts[k].v) # <<>>

C21_NoneOrTrimmedText ==
    /\ x_pc # "escaped"
    /\ x_pc = "done" =>
          \/ extracted = PyNone
          \/ /\ extracted.t = "str"
             /\ extracted.v # <<>>
             /\ Strip(extracted.v) = extracted.v

\* a Word document whose library raised came back as None
C21_Witness ==
    /\ x_pc = "done"
    /\ IsWord(document)
    /\ Raises(document.parts)
    /\ extracted = PyNone

\* the pages of a document on which OCR found text, each text trimmed, in
\* page order
PagesWithText(doc) ==
    LET yielding == SelectSeq(doc.parts, LAMBDA q : q.t = "str" /\ Strip(q.v) # <<>>)
    IN  [k \in 1..Len(yielding) |-> Strip(yielding[k].v)]

\* C22: in OCR a page without text and a page whose processing raises are
\* skipped and do not fail the document: the result is the trimmed texts
\* of the pages that yielded text, one after the other in page order, and
\* it is None if and only if no page yielded text that is not whitespace.
C22_PagesInOrder ==
    x_pc = "done" /\ IsPdf(document) =>
        /\ extracted = PyNone <=> PagesWithText(document) = <<>>
        /\ extracted # PyNone =>
              extracted = Str(Join(NL, PagesWithText(document)))

\* the first page raised and the second one gave the text of the document
C22_Witness ==
    /\ x_pc = "done"
    /\ IsPdf(document)
    /\ Len(document.parts) = 2
    /\ document.parts[1] = Raise
    /\ extracted = Str(<<SHORT_TEXT>>)

(***************************************************************************)
(* LegalAnalyzer (main.py): the run over the companies                     *)
(***************************************************************************)
\* extract_all_text_from_folder as a function of the folder: the loop of
\* lines 287-293 over the discovered files
RECURSIVE ExtractLoop(_, _, _, _)
ExtractLoop(files, docs, texts, failed) ==
    IF docs = <<>> THEN [successful_texts |-> texts, failed_documents |-> failed]
    ELSE LET t == extract_text_from_document(FileAt(files, Head(docs)))
         IN  IF Truthy(t)
             THEN ExtractLoop(files, Tail(docs), StoreText(texts, Head(docs), t.v), failed)
             ELSE ExtractLoop(files, Tail(docs), texts, Append(failed, Basename(Head(docs))))

extract_all_text_from_folder(files) ==
    LET document_files_ == get_all_documents_in_folder(files)
        r == ExtractLoop(files, document_files_, <<>>, <<>>)
    IN  [successful_texts |-> r.successful_texts,
         failed_documents |-> r.failed_documents,
         document_stats |-> [total |-> Len(document_files_),
                             successful |-> Len(r.successful_texts),
                             failed |-> Len(r.failed_documents)]]

\* FileManager.get_company_combined_text
get_company_combined_text(company) ==
    IF ~company.exists
    THEN [combined_text |-> <<>>, document_stats |-> ZeroStats, failed_documents |-> <<>>]
    ELSE LET extraction_results == extract_all_text_from_folder(company.files)
         IN  [combined_text |->
                  IF extraction_results.successful_texts = <<>> THEN <<>>
                  ELSE combine_document_texts(extraction_results.successful_texts),
              document_stats |-> extraction_results.document_stats,
              failed_documents |-> extraction_results.failed_documents]

\* the analysis client: None without text, without the prompt, when the
\* request raises or is answered with another status than 200; the parsed
\* record otherwise
analyze_company_documents(company_data, reply) ==
    IF company_data.combined_text = <<>> THEN PyNone
    ELSE IF reply.kind = "no_prompt" \/ reply.kind = "raises" THEN PyNone
    ELSE IF reply.status_code # 200 THEN PyNone
    ELSE [t |-> "dict",
          v |-> parse_detailed_response(reply.text, Str(<<company_data.company_name>>))]

\* line 94, the test that ends a company without text
\* mutant: the company goes on to the analysis whatever was extracted
HasTextAlways(tr) == TRUE
HasText(tr) == tr.t # "none" /\ tr.v.combined_text # <<>>

\* line 110
HasAnalysis(a) == a.t = "dict"

\* _add_failed_files_from_company
RECURSIVE _add_failed_files_from_company(_, _, _)
_add_failed_files_from_company(files, company, failed) ==
    IF failed = <<>> THEN files
    ELSE _add_failed_files_from_company(
             Append(files, [file_path |-> PathJoin(company.path, Head(failed)),
                            company |-> company.name,
                            reason |-> "Text extraction failed"]),
             company, Tail(failed))

(***************************************************************************)
(* Inputs: the companies on disk, the replies of the analysis service      *)
(***************************************************************************)
MaxCompanies == 2

CompanyFolders ==
    { [name |-> "Acme", type |-> "vendor", path |-> "data/Vendors/Acme"],
      [name |-> "Birch", type |-> "vendor", path |-> "data/Vendors/Birch"],
      [name |-> "Acme", type |-> "client", path |-> "data/Clients/Acme"] }

\* what a company folder holds
FolderContents(path) ==
    { <<File(path, <<"notes", ".txt">>, Readable)>>,
      <<File(path, <<"lease", ".pdf">>, Readable)>>,
      <<File(path, <<"msa", ".docx">>, Broken)>>,
      <<File(path, <<"lease", ".pdf">>, Readable), File(path, <<"msa", ".docx">>, Broken)>>,
      <<File(path, <<"lease", ".pdf">>, Blank), File(path, <<"msa", ".docx">>, Broken)>> }

Company(c, exists, files) ==
    [name |-> c.name, type |-> c.type, path |-> c.path, exists |-> exists, files |-> files]

Companies ==
    UNION {{Company(c, TRUE, files) : files \in FolderContents(c.path)}
           \cup {Company(c, FALSE, <<>>)} : c \in CompanyFolders}

\* get_all_companies lists the vendors before the clients, every folder once
CompanyLists ==
    {cs \in SeqsUpTo(Companies, MaxCompanies) :
        \A i \in 1..Len(cs) : \A j \in 1..Len(cs) :
            i < j => /\ cs[i].path # cs[j].path
                     /\ ~(cs[i].type = "client" /\ cs[j].type = "vendor")}

ReplyTexts ==
    { Render(<< <<"action_required", <<QUOTE, NOTIFY, QUOTE>> >> >>, <<>>),
      <<PROSE, NOTIFY>> }

Replies ==
    { [kind |-> "no_prompt", status_code |-> 0, text |-> <<>>],
      [kind |-> "raises", status_code |-> 0, text |-> <<>>],
      [kind |-> "response", status_code |-> 500, text |-> <<>>] }
    \cup {[kind |-> "response", status_code |-> 200, text |-> t] : t \in ReplyTexts}

(***************************************************************************)
(* run_analysis as a state machine                                         *)
(***************************************************************************)
RunInit ==
    /\ r_pc = "call"
    /\ companies \in CompanyLists
    /\ index = 0
    /\ total_companies = 0
    /\ successful_companies = 0
    /\ failed_companies = 0
    /\ failed_files = <<>>
    /\ text_result = PyNone
    /\ analysis_result = PyNone
    /\ rows = <<>>
    /\ steps = <<>>
    /\ ParserAtRest /\ FilterAtRest /\ ScanAtRest /\ ExtractAtRest

Step(name, returned) == [step |-> name, company |-> index, returned |-> returned]

\* lines 37-53: the setup, the discovery and the blank spreadsheet
StartRun ==
    /\ r_pc = "call"
    /\ \E valid \in BOOLEAN, created \in BOOLEAN :
          IF ~valid \/ companies = <<>>
          THEN r_pc' = "returned_false" /\ UNCHANGED <<total_companies, index>>
          ELSE /\ total_companies' = Len(companies)
               /\ IF created
                  THEN r_pc' = "company" /\ index' = 1
                  ELSE r_pc' = "returned_false" /\ index' = index
    /\ UNCHANGED <<companies, successful_companies, failed_companies, failed_files,
                   text_result, analysis_result, rows, steps>>
    /\ UNCHANGED <<parserVars, filterVars, scanVars, extractVars>>

\* lines 56-57 and 87-93: the next company, and its combined text
GetCombinedText ==
    /\ r_pc = "company"
    /\ index <= Len(companies)
    /\ text_result' = [t |-> "dict", v |-> get_company_combined_text(companies[index])]
    /\ steps' = Append(steps, Step("extract", text_result'.v.combined_text # <<>>))
    /\ r_pc' = "text"
    /\ UNCHANGED <<companies, index, total_companies, successful_companies,
                   failed_companies, failed_files, analysis_result, rows>>
    /\ UNCHANGED <<parserVars, filterVars, scanVars, extractVars>>

\* lines 94-99
NoText ==
    /\ r_pc = "text"
    /\ ~HasText(text_result)
    /\ failed_companies' = failed_companies + 1
    /\ failed_files' = _add_failed_files_from_company(
                           failed_files, companies[index], text_result.v.failed_documents)
    /\ index' = index + 1
    /\ r_pc' = "company"
    /\ UNCHANGED <<companies, total_companies, successful_companies, text_result,
                   analysis_result, rows, steps>>
    /\ UNCHANGED <<parserVars, filterVars, scanVars, extractVars>>

\* lines 101-109
Analyze ==
    /\ r_pc = "text"
    /\ HasText(text_result)
    /\ \E reply \in Replies :
          analysis_result' =
              analyze_company_documents(
                  [company_name |-> companies[index].name,
                   combined_text |-> text_result.v.combined_text], reply)
    /\ steps' = Append(steps, Step("llm", analysis_result'.t = "dict"))
    /\ r_pc' = "analysis"
    /\ UNCHANGED <<companies, index, total_companies, successful_companies,
                   failed_companies, failed_files, text_result, rows>>
    /\ UNCHANGED <<parserVars, filterVars, scanVars, extractVars>>

\* lines 110-113
\* mutant: the company is left without being counted
AnalysisFailedUncounted ==
    /\ r_pc = "analysis"
    /\ ~HasAnalysis(analysis_result)
    /\ index' = index + 1
    /\ r_pc' = "company"
    /\ UNCHANGED <<companies, total_companies, successful_companies, failed_companies,
                   failed_files, text_result, analysis_result, rows, steps>>
    /\ UNCHANGED <<parserVars, filterVars, scanVars, extractVars>>
AnalysisFailed ==
    /\ r_pc = "analysis"
    /\ ~HasAnalysis(analysis_result)
    /\ failed_companies' = failed_companies + 1
    /\ index' = index + 1
    /\ r_pc' = "company"
    /\ UNCHANGED <<companies, total_companies, successful_companies, failed_files,
                   text_result, analysis_result, rows, steps>>
    /\ UNCHANGED <<parserVars, filterVars, scanVars, extractVars>>

\* lines 115-129: add_company_row saves the row or raises
AddToExcel ==
    /\ r_pc = "analysis"
    /\ HasAnalysis(analysis_result)
    /\ \E saved \in BOOLEAN :
          /\ steps' = Append(steps, Step("excel", saved))
          /\ IF saved
             THEN /\ rows' = Append(rows, [row_number |-> index + 1,
                                           company_data |-> analysis_result.v])
                  /\ successful_companies' = successful_companies + 1
                  /\ failed_companies' = failed_companies
             ELSE /\ rows' = rows
                  /\ successful_companies' = successful_companies
                  /\ failed_companies' = failed_companies + 1
    /\ index' = index + 1
    /\ r_pc' = "company"
    /\ UNCHANGED <<companies, total_companies, failed_files, text_result, analysis_result>>
    /\ UNCHANGED <<parserVars, filterVars, scanVars, extractVars>>

\* lines 59-61
Summary ==
    /\ r_pc = "company"
    /\ index > Len(companies)
    /\ r_pc' = "done"
    /\ UNCHANGED <<companies, index, total_companies, successful_companies,
                   failed_companies, failed_files, text_result, analysis_result,
                   rows, steps>>
    /\ UNCHANGED <<parserVars, filterVars, scanVars, extractVars>>

RunNext ==
    StartRun \/ GetCombinedText \/ NoText \/ Analyze \/ AnalysisFailed
    \/ AddToExcel \/ Summary

SpecRun == RunInit /\ [][RunNext]_vars

(***************************************************************************)
(* Properties of the run                                                   *)
(***************************************************************************)
RunFinished == r_pc = "done"

StepOf(name, i, returned) == [step |-> name, company |-> i, returned |-> returned]

\* C23: the companies are processed one after another and the steps of a
\* company are ordered: the first step of the run is the extraction of the
\* first company, and an extraction follows the last step of the company
\* before; the analysis client is called only right after the extraction of
\* the same company returned a combined text that is not empty; a row is
\* written only right after the client returned an analysis for the same
\* company; so a company that fails at a step has no later step, and when
\* the run ends every company has had its extraction.
C23_StepsInOrder ==
    /\ \A k \in 1..Len(steps) :
          /\ steps[k].step = "extract" =>
                /\ steps[k].company = (IF k = 1 THEN 1 ELSE steps[k - 1].company + 1)
                /\ steps[k].returned =
                      (get_company_combined_text(companies[steps[k].company]).combined_text
                          # <<>>)
          /\ steps[k].step = "llm" =>
                k > 1 /\ steps[k - 1] = StepOf("extract", steps[k].company, TRUE)
          /\ steps[k].step = "excel" =>
                k > 1 /\ steps[k - 1] = StepOf("llm", steps[k].company, TRUE)
    /\ Len(rows) = Len(SelectSeq(steps, LAMBDA s : s.step = "excel" /\ s.returned))
    /\ RunFinished =>
          \A i \in 1..Len(companies) :
              \E k \in 1..Len(steps) : steps[k].step = "extract" /\ steps[k].company = i

C23_Witness ==
    /\ RunFinished
    /\ steps = <<StepOf("extract", 1, FALSE), StepOf("extract", 2, TRUE),
                 StepOf("llm", 2, TRUE), StepOf("excel", 2, TRUE)>>

\* a return of _process_company, and what it does to the two counters
ProcessCompanyReturns == r_pc \in {"text", "analysis"} /\ r_pc' = "company"
OneCounterIncremented ==
    \/ /\ successful_companies' = successful_companies + 1
       /\ failed_companies' = failed_companies
    \/ /\ successful_companies' = successful_companies
       /\ failed_companies' = failed_companies + 1

\* C24: every call of _process_company adds one to exactly one of
\* successful_companies and failed_companies and leaves the other alone, and
\* when the run has gone through all companies the two add up to
\* total_companies.
C24_EveryCompanyCountedOnce ==
    /\ [][ProcessCompanyReturns => OneCounterIncremented]_vars
    /\ [](r_pc \in {"company", "text", "analysis"} =>
            successful_companies + failed_companies = index - 1)
    /\ [](RunFinished =>
            /\ total_companies = Len(companies)
            /\ successful_companies + failed_companies = total_companies)

C24_Witness ==
    /\ RunFinished
    /\ total_companies = 2
    /\ successful_companies = 1
    /\ failed_companies = 1

\* the documents of a company folder whose extraction fails
FailedDocumentsOf(company) ==
    {f.path : f \in {company.files[k] : k \in 1..Len(company.files)}}
    \cap {d \in {get_all_documents_in_folder(company.files)[k] :
                    k \in 1..Len(get_all_documents_in_folder(company.files))} :
             ~Truthy(extract_text_from_document(FileAt(company.files, d)))}

\* C25: when the run ends, failed_files has one entry for every document of
\* every processed company whose extraction failed, the companies with
\* other, readable documents included.
C25_AllFailedFilesTracked ==
    RunFinished =>
        \A i \in 1..Len(companies) :
            \A d \in FailedDocumentsOf(companies[i]) :
                Cardinality({k \in 1..Len(failed_files) :
                                /\ failed_files[k].file_path = d
                                /\ failed_files[k].company = companies[i].name}) = 1

====
